---- MODULE Spec2Model ----
(***************************************************************************)
(* Session-context synchronisation and recovery of quantfident:            *)
(*   - the server session registry (SessionService over the three tables   *)
(*     UserSession, SessionContext, SessionSnapshot),                      *)
(*   - the client controller (the useSessionRecovery hook) with its local  *)
(*     persistence and the requests it sends to the registry.              *)
(* Every database call of a service method is one atomic step; the steps   *)
(* of concurrently running service calls interleave.                       *)
(***************************************************************************)
EXTENDS Integers, Sequences, FiniteSets, TLC

(***************************************************************************)
(* Bounds of the model.                                                    *)
(***************************************************************************)
MaxUpdates == 3      \* updateSessionContext calls when only updates run
MaxCalls == 2        \* calls (update, fan-out, snapshot) when they run side by side
MaxShares == 1       \* shareContextAcrossSessions calls among them
MaxTime == 1         \* clock ticks
MaxHookCalls == 2    \* calls of the hook's updateContext / restoreSnapshot
MaxFires == 1        \* times the auto-save interval fires
MaxEvents == 1       \* storage events delivered to the page
MaxSweeps == 2       \* cleanupExpiredData calls
MaxCreated == 1      \* snapshots created while the clean-up runs

(***************************************************************************)
(* JSON payloads.  A context payload is a map from top-level keys to JSON  *)
(* values; the values are themselves one-level objects, so that replacing  *)
(* a value differs from merging into it.                                   *)
(***************************************************************************)
V1 == [x |-> 1]
V2 == [y |-> 1]
Values == {V1, V2}
Empty == [k \in {} |-> V1]

Stamp(t) == [iso |-> t]

\* a deep merge: nested objects under a shared key are merged, not replaced
MergeDeep(P, U) ==
  [k \in DOMAIN P \cup DOMAIN U |->
     IF k \in DOMAIN U
       THEN IF k \in DOMAIN P
              THEN [f \in DOMAIN P[k] \cup DOMAIN U[k] |->
                      IF f \in DOMAIN U[k] THEN U[k][f] ELSE P[k][f]]
              ELSE U[k]
       ELSE P[k]]

\* a merge that takes a key both payloads hold for a key to remove
MergeToggling(P, U) ==
  [k \in (DOMAIN P \cup DOMAIN U) \ (DOMAIN P \cap DOMAIN U) |->
     IF k \in DOMAIN U THEN U[k] ELSE P[k]]

\* { ...existingData, ...contextData }
Merge(P, U) ==
  [k \in DOMAIN P \cup DOMAIN U |-> IF k \in DOMAIN U THEN U[k] ELSE P[k]]

Partials == {[theme |-> V2], [font |-> V1]}
ShareKeys == {"theme"}
ShareValues == {V2}
SnapPayloads == {[theme |-> V2, font |-> V1]}
NoName == "<undefined>"
SnapNames == {NoName, "before-font"}

(***************************************************************************)
(* Identities and session tokens.                                          *)
(***************************************************************************)
Users == {"U1", "U2"}
Tokens == {"tok-1", "tok-exp", "tok-off", "tok-u2", "tok-none"}
NoUser == "<none>"
NoToken == "<undefined>"
UpdateTokens == {"tok-1", "tok-exp", "tok-none"} \* tokens of direct updates
RivalTokens == {"tok-1", "tok-exp"}   \* tokens of updates racing a fan-out
SnapTokens == {"tok-1"}               \* session a snapshot is taken in
SnapSharers == {"U1"}                 \* identity fanning out next to snapshots

SessionTTL == 30     \* days a session lives
SnapshotTTL == 30    \* days a snapshot lives

VARIABLES
  now,            \* the server clock
  sessions,       \* table UserSession: token -> row
  contexts,       \* table SessionContext: token -> row (sessionId is unique)
  snapshots,      \* table SessionSnapshot: id -> row
  taken,          \* history: the payload each snapshot was created with
  tasks,          \* updateSessionContext calls, in flight or finished
  shares,         \* shareContextAcrossSessions calls
  lastResult,     \* the outcome of the updateSessionContext call that finished last
  lastRestore,    \* the outcome of the restoreFromSnapshot call that finished last
  acked,          \* history: token -> the <<key, value>> pairs of successful updates
  nUpdates        \* number of direct updateSessionContext calls so far

VARIABLES
  options,        \* UseSessionRecoveryOptions of the mounted hook
  hook,           \* the hook's React state: sessionId, contextData, isLoading, ...
  view,           \* sessionId and contextData as captured by the last render
  initializing,   \* the run of initializeSession
  store,          \* browser storage: IndexedDB contexts, localStorage fallback, session id
  calls           \* calls of updateContext / restoreSnapshot, in flight or finished

VARIABLES
  posted,         \* the messages broadcastSessionUpdate has sent, in order
  timer,          \* the interval of the auto-save effect
  listener,       \* the storage listener of the cross-tab effect
  mounted         \* FALSE once the component using the hook is unmounted

VARIABLES
  peer,           \* another tab of the same origin: its storage listener and context
  delivered       \* history: <<n, document>> when message n of posted reached a listener

VARIABLES
  loaded,         \* what the last loadSessionContextLocal call returned, and for which key
  saves           \* history: the data last saved under each key; has IndexedDB ever worked

VARIABLES
  lastList,       \* what the last getUserSessionSnapshots call returned, and when
  sweeps          \* cleanupExpiredData calls, in flight or finished

VARIABLES
  lastReply,      \* the last answer of a context route that did not come from updateSessionContext
  callers         \* history: the identity verified for the route request behind a call

VARIABLES
  fired,          \* storage events the other tab's localStorage writes have caused
  invoked         \* history: the events of fired that reached the hook's callback

regVars == <<now, sessions, contexts, snapshots, taken, tasks, shares,
             lastResult, lastRestore, acked, nUpdates>>
tabVars == <<peer, delivered>>
cacheVars == <<loaded, saves>>
sweepVars == <<lastList, sweeps>>
routeVars == <<lastReply, callers>>
eventVars == <<fired, invoked>>
pageVars == <<posted, timer, listener, mounted, tabVars, cacheVars, sweepVars,
              routeVars, eventVars>>
ctlVars == <<options, hook, view, initializing, store, calls, pageVars>>
vars == <<regVars, ctlVars>>

(***************************************************************************)
(* The registry after the tables were populated by earlier logins: two     *)
(* sessions of U1 that are flagged active (tok-exp, still without Context, *)
(* expires at time 1), one deactivated session of U1, one session of U2;   *)
(* tok-none has no row.                                                    *)
(***************************************************************************)
InitSessions ==
  [t \in Tokens \ {"tok-none"} |->
     [userId |-> IF t = "tok-u2" THEN "U2" ELSE "U1",
      isActive |-> t # "tok-off",
      expiresAt |-> IF t = "tok-exp" THEN 1 ELSE MaxTime + SessionTTL]]

InitContexts ==
  [t \in {"tok-1", "tok-off", "tok-u2"} |->
     [userId |-> InitSessions[t].userId, contextData |-> [theme |-> V1]]]

NoResult == [token |-> NoToken, result |-> "none", returned |-> Empty]

NoRestore ==
  [id |-> 0, userId |-> NoUser, status |-> "none", hasPayload |-> FALSE,
   snapshotData |-> Empty, snapshotName |-> NoName]

RegInit ==
  /\ now = 0
  /\ sessions = InitSessions
  /\ contexts = InitContexts
  /\ snapshots = [i \in {} |-> 0]
  /\ taken = <<>>
  /\ tasks = <<>>
  /\ shares = <<>>
  /\ lastResult = NoResult
  /\ lastRestore = NoRestore
  /\ acked = [t \in Tokens |-> {}]
  /\ nUpdates = 0

(***************************************************************************)
(* SessionService.getUserActiveSessions: the sessions of userId that are   *)
(* flagged active and whose expiry lies in the future.                     *)
(***************************************************************************)
getUserActiveSessions(userId) ==
  {t \in DOMAIN sessions :
     /\ sessions[t].userId = userId
     /\ sessions[t].isActive
     /\ sessions[t].expiresAt > now}

\* the payload stored for a token; no Context counts as the empty payload
Stored(tok) == IF tok \in DOMAIN contexts THEN contexts[tok].contextData ELSE Empty

(***************************************************************************)
(* SessionService.updateSessionContext, one database call per step:        *)
(*   findSession -> findContext -> create | update -> done                 *)
(* A finished call keeps its token, its outcome and the fan-out it belongs *)
(* to; its locals are gone.                                                *)
(***************************************************************************)
NewTask(tok, U, parent) ==
  [op |-> "update", token |-> tok, partial |-> U, pc |-> "findSession",
   sessUser |-> NoUser, ctxRead |-> Empty, result |-> "pending", share |-> parent]

Finish(t, res) ==
  [t EXCEPT !.pc = "done", !.result = res, !.partial = Empty,
            !.sessUser = NoUser, !.ctxRead = Empty]

Response(t, res, ret) == [token |-> t.token, result |-> res, returned |-> ret]

Pairs(U) == {<<k, U[k]>> : k \in DOMAIN U}

\* the session lookup without the "Session not found" guard
findSessionUnguarded(t) ==
  [t EXCEPT !.pc = "findContext",
            !.sessUser = IF t.token \in DOMAIN sessions
                           THEN sessions[t.token].userId ELSE NoUser]

\* prisma.userSession.findUnique; if (!session) throw 'Session not found'
findSession(t) ==
  IF t.token \in DOMAIN sessions
    THEN [t EXCEPT !.pc = "findContext", !.sessUser = sessions[t.token].userId]
    ELSE Finish(t, "NotFound")

\* prisma.sessionContext.findUnique; if (!context) create else update
findContext(t) ==
  IF t.token \in DOMAIN contexts
    THEN [t EXCEPT !.pc = "update", !.ctxRead = contexts[t.token].contextData]
    ELSE [t EXCEPT !.pc = "create"]

\* a merge that also merges the nested objects of a shared key
mergedDataDeep(t) == MergeDeep(t.ctxRead, t.partial)

\* const mergedData = { ...existingData, ...contextData }
mergedData(t) == Merge(t.ctxRead, t.partial)

\* a rejection inside Promise.all that also stops the sibling calls
settleAbortingSiblings(ts, i) ==
  [j \in DOMAIN ts |->
     IF /\ j # i
        /\ ts[i].share # 0
        /\ ts[i].result # "ok"
        /\ ts[j].share = ts[i].share
        /\ ts[j].pc # "done"
       THEN Finish(ts[j], "Aborted")
       ELSE ts[j]]

\* Promise.all(sessions.map(...)): every call was started by map and runs
\* on its own; the settling of call i changes no other call
settle(ts, i) == ts

\* the step of call i that looks up the session
StepFindSession(ts, i) ==
  LET t == findSession(ts[i])
  IN /\ tasks' = (IF t.pc = "done" THEN settle([ts EXCEPT ![i] = t], i)
                                   ELSE [ts EXCEPT ![i] = t])
     /\ lastResult' = (IF t.pc = "done" THEN Response(t, t.result, Empty)
                                        ELSE lastResult)

\* POST /api/sessions/context: the route calls updateSessionContext, whose
\* first database call is the session lookup
UpdateCall(tok, U) ==
  /\ nUpdates' = nUpdates + 1
  /\ StepFindSession(Append(tasks, NewTask(tok, U, 0)), Len(tasks) + 1)
  /\ UNCHANGED <<now, sessions, contexts, snapshots, taken, shares, lastRestore, acked>>

\* the session lookup of a call started by the fan-out
UpdateFindSession(i) ==
  /\ tasks[i].pc = "findSession"
  /\ StepFindSession(tasks, i)
  /\ UNCHANGED <<now, sessions, contexts, snapshots, taken, shares, lastRestore,
                 acked, nUpdates>>

UpdateFindContext(i) ==
  /\ tasks[i].pc = "findContext"
  /\ tasks' = [tasks EXCEPT ![i] = findContext(tasks[i])]
  /\ UNCHANGED <<now, sessions, contexts, snapshots, taken, shares, lastResult,
                 lastRestore, acked, nUpdates>>

\* prisma.sessionContext.create; sessionId is @unique
UpdateCreate(i) ==
  /\ tasks[i].pc = "create"
  /\ IF tasks[i].token \in DOMAIN contexts
       THEN /\ tasks' = settle([tasks EXCEPT ![i] = Finish(tasks[i], "Conflict")], i)
            /\ lastResult' = Response(tasks[i], "Conflict", Empty)
            /\ UNCHANGED <<contexts, acked>>
       ELSE /\ contexts' = (tasks[i].token :>
                               [userId |-> tasks[i].sessUser,
                                contextData |-> tasks[i].partial]) @@ contexts
            /\ tasks' = settle([tasks EXCEPT ![i] = Finish(tasks[i], "ok")], i)
            /\ lastResult' = Response(tasks[i], "ok", tasks[i].partial)
            /\ acked' = [acked EXCEPT ![tasks[i].token] = @ \cup Pairs(tasks[i].partial)]
  /\ UNCHANGED <<now, sessions, snapshots, taken, shares, lastRestore, nUpdates>>

\* prisma.sessionContext.update where id = context.id
UpdateWrite(i) ==
  /\ tasks[i].pc = "update"
  /\ tasks[i].token \in DOMAIN contexts
  /\ contexts' = [contexts EXCEPT ![tasks[i].token].contextData = mergedData(tasks[i])]
  /\ tasks' = settle([tasks EXCEPT ![i] = Finish(tasks[i], "ok")], i)
  /\ lastResult' = Response(tasks[i], "ok", mergedData(tasks[i]))
  /\ acked' = [acked EXCEPT ![tasks[i].token] = @ \cup Pairs(tasks[i].partial)]
  /\ UNCHANGED <<now, sessions, snapshots, taken, shares, lastRestore, nUpdates>>

(***************************************************************************)
(* SessionService.getOrCreateSessionContext(sessionId, userId, defaultData)*)
(* in its two database calls: findUnique on the Context, then create.      *)
(***************************************************************************)
GetOrCreateTokens == {"tok-exp", "tok-none"}
Defaults == {Empty, [theme |-> V2]}

\* let context = await prisma.sessionContext.findUnique; if (!context) create
firstStep(t) ==
  IF t.token \in DOMAIN contexts THEN Finish(t, "ok")
  ELSE [t EXCEPT !.pc = "createDefault"]

GetOrCreateCall(tok, userId, defaultData) ==
  LET t == firstStep([NewTask(tok, defaultData, 0) EXCEPT
                        !.op = "getOrCreate", !.sessUser = userId])
  IN /\ tasks' = Append(tasks, t)
     /\ lastResult' = (IF t.pc = "done" THEN Response(t, t.result, Stored(tok))
                                        ELSE lastResult)
     /\ UNCHANGED <<now, sessions, contexts, snapshots, taken, shares, lastRestore,
                    acked, nUpdates>>

\* prisma.sessionContext.create({ data: { userId, sessionId, contextData:
\* defaultData } }); sessionId is @unique
GetOrCreateCreate(i) ==
  /\ tasks[i].pc = "createDefault"
  /\ IF tasks[i].token \in DOMAIN contexts
       THEN /\ tasks' = [tasks EXCEPT ![i] = Finish(tasks[i], "Conflict")]
            /\ lastResult' = Response(tasks[i], "Conflict", Empty)
            /\ UNCHANGED contexts
       ELSE /\ contexts' = (tasks[i].token :>
                               [userId |-> tasks[i].sessUser,
                                contextData |-> tasks[i].partial]) @@ contexts
            /\ tasks' = [tasks EXCEPT ![i] = Finish(tasks[i], "ok")]
            /\ lastResult' = Response(tasks[i], "ok", tasks[i].partial)
  /\ UNCHANGED <<now, sessions, snapshots, taken, shares, lastRestore, acked, nUpdates>>

(***************************************************************************)
(* SessionService.shareContextAcrossSessions                               *)
(***************************************************************************)
RECURSIVE SpawnAll(_, _, _)
SpawnAll(toks, data, parent) ==
  IF toks = {} THEN <<>>
  ELSE LET t == CHOOSE x \in toks : TRUE
       IN <<NewTask(t, data, parent)>> \o SpawnAll(toks \ {t}, data, parent)

\* prisma.userSession.findMany({ where: { userId, isActive: true } })
shareTargets(userId) ==
  {t \in DOMAIN sessions : sessions[t].userId = userId /\ sessions[t].isActive}

\* { [contextKey]: contextValue, sharedAt: new Date().toISOString() }
sharedContextData(key, value) ==
  Merge((key :> value), ("sharedAt" :> Stamp(now)))

ShareCall(userId, key, value) ==
  /\ shares' = Append(shares,
                  [userId |-> userId, key |-> key, value |-> value,
                   targets |-> shareTargets(userId),
                   listed |-> getUserActiveSessions(userId)])
  /\ tasks' = tasks \o SpawnAll(shareTargets(userId),
                                 sharedContextData(key, value), Len(shares) + 1)
  /\ UNCHANGED <<now, sessions, contexts, snapshots, taken, lastResult,
                 lastRestore, acked, nUpdates>>

(***************************************************************************)
(* SessionService.createSessionSnapshot / restoreFromSnapshot              *)
(***************************************************************************)
Truthy(name) == name # NoName /\ name # ""

CreateSnapshot(userId, tok, payload, name) ==
  /\ snapshots' = ((Len(taken) + 1) :>
                     [userId |-> userId, sessionId |-> tok,
                      snapshotData |-> payload, snapshotName |-> name,
                      createdAt |-> now, expiresAt |-> now + SnapshotTTL,
                      isManual |-> Truthy(name),
                      source |-> IF Truthy(name) THEN "manual" ELSE "auto"])
                   @@ snapshots
  /\ taken' = Append(taken, payload)
  /\ UNCHANGED <<now, sessions, contexts, tasks, shares, lastResult,
                 lastRestore, acked, nUpdates>>

NoPayload(id, userId) ==
  [id |-> id, userId |-> userId, status |-> "NotFoundOrUnauthorized",
   hasPayload |-> FALSE, snapshotData |-> Empty, snapshotName |-> NoName]

\* a restore that hands out the live context of the snapshot's session
restoreFromLiveContext(id, userId) ==
  IF id \in DOMAIN snapshots /\ snapshots[id].userId = userId
    THEN [id |-> id, userId |-> userId, status |-> "ok", hasPayload |-> TRUE,
          snapshotData |-> IF snapshots[id].sessionId \in DOMAIN contexts
                             THEN contexts[snapshots[id].sessionId].contextData
                             ELSE snapshots[id].snapshotData,
          snapshotName |-> snapshots[id].snapshotName]
    ELSE NoPayload(id, userId)

\* a restore without the ownership test
restoreUnchecked(id, userId) ==
  IF id \in DOMAIN snapshots
    THEN [id |-> id, userId |-> userId, status |-> "ok", hasPayload |-> TRUE,
          snapshotData |-> snapshots[id].snapshotData,
          snapshotName |-> snapshots[id].snapshotName]
    ELSE NoPayload(id, userId)

\* a restore that takes expiry into account, as the listing does
restoreUnexpired(id, userId) ==
  IF id \in DOMAIN snapshots /\ snapshots[id].userId = userId
       /\ snapshots[id].expiresAt > now
    THEN [id |-> id, userId |-> userId, status |-> "ok", hasPayload |-> TRUE,
          snapshotData |-> snapshots[id].snapshotData,
          snapshotName |-> snapshots[id].snapshotName]
    ELSE NoPayload(id, userId)

\* if (!snapshot || snapshot.userId !== userId) throw ...; return { snapshotData, ... }
restoreFromSnapshot(id, userId) ==
  IF id \in DOMAIN snapshots /\ snapshots[id].userId = userId
    THEN [id |-> id, userId |-> userId, status |-> "ok", hasPayload |-> TRUE,
          snapshotData |-> snapshots[id].snapshotData,
          snapshotName |-> snapshots[id].snapshotName]
    ELSE NoPayload(id, userId)

\* a restore that also writes the payload into the Context of the snapshot's session
RestoreApplying(id, userId) ==
  /\ lastRestore' = restoreFromSnapshot(id, userId)
  /\ contexts' = IF /\ restoreFromSnapshot(id, userId).status = "ok"
                    /\ snapshots[id].sessionId \in DOMAIN contexts
                   THEN [contexts EXCEPT ![snapshots[id].sessionId].contextData =
                                            snapshots[id].snapshotData]
                   ELSE contexts
  /\ UNCHANGED <<now, sessions, snapshots, taken, tasks, shares,
                 lastResult, acked, nUpdates>>

Restore(id, userId) ==
  /\ lastRestore' = restoreFromSnapshot(id, userId)
  /\ UNCHANGED <<now, sessions, contexts, snapshots, taken, tasks, shares,
                 lastResult, acked, nUpdates>>

Tick ==
  /\ now < MaxTime
  /\ now' = now + 1
  /\ UNCHANGED <<sessions, contexts, snapshots, taken, tasks, shares,
                 lastResult, lastRestore, acked, nUpdates>>

(***************************************************************************)
(* SessionService.getUserSessionSnapshots and cleanupExpiredData.  The     *)
(* clean-up deletes from userSession and from sessionSnapshot; the models  *)
(* SessionContext and SessionSnapshot are documented without a relation to *)
(* UserSession, so deleting a session deletes that row only.               *)
(***************************************************************************)
NoList == [userId |-> NoUser, limit |-> 0, at |-> 0, rows |-> <<>>]

ListLimits == {1, 2}

\* a filter on the owner alone
listableOfUser(userId) ==
  {id \in DOMAIN snapshots : snapshots[id].userId = userId}

\* where: { userId, expiresAt: { gt: new Date() } }
listable(userId) ==
  {id \in DOMAIN snapshots :
     snapshots[id].userId = userId /\ snapshots[id].expiresAt > now}

\* the fields of a listed snapshot
ListedRow(id) ==
  [id |-> id, userId |-> snapshots[id].userId, createdAt |-> snapshots[id].createdAt,
   expiresAt |-> snapshots[id].expiresAt, snapshotName |-> snapshots[id].snapshotName,
   source |-> snapshots[id].source, isManual |-> snapshots[id].isManual]

\* orderBy: { createdAt: 'desc' }
RECURSIVE newestFirst(_)
newestFirst(ids) ==
  IF ids = {} THEN <<>>
  ELSE LET m == CHOOSE i \in ids :
                  \A j \in ids : snapshots[i].createdAt >= snapshots[j].createdAt
       IN <<ListedRow(m)>> \o newestFirst(ids \ {m})

\* getUserSessionSnapshots(userId, limit): the newest `limit` of the rows that
\* pass the filter; among rows created at the same time any may be taken
ListSnapshots(userId, limit) ==
  /\ \E ids \in SUBSET listable(userId) :
       /\ Cardinality(ids) = IF Cardinality(listable(userId)) < limit
                                THEN Cardinality(listable(userId)) ELSE limit
       /\ \A i \in ids, j \in listable(userId) \ ids :
            snapshots[i].createdAt >= snapshots[j].createdAt
       /\ lastList' = [userId |-> userId, limit |-> limit, at |-> now,
                       rows |-> newestFirst(ids)]
  /\ UNCHANGED sweeps

\* a test that also takes the rows expiring at this very moment
expiredOrDue(row, t) == row.expiresAt <= t

\* where: { expiresAt: { lt: now } }
expired(row, t) == row.expiresAt < t

\* prisma.<table>.deleteMany of the expired rows
deleteMany(table, t) ==
  [k \in {x \in DOMAIN table : ~expired(table[x], t)} |-> table[k]]

\* cleanupExpiredData up to its second await: const now = new Date();
\* await prisma.userSession.deleteMany
CleanupCall ==
  /\ sweeps' = Append(sweeps, [now |-> now, pc |-> "snapshots"])
  /\ sessions' = deleteMany(sessions, now)
  /\ UNCHANGED <<now, contexts, snapshots, taken, tasks, shares, lastResult,
                 lastRestore, acked, nUpdates, lastList>>

\* await prisma.sessionSnapshot.deleteMany, with the time the call started at
CleanupSnapshots(i) ==
  /\ sweeps[i].pc = "snapshots"
  /\ sweeps' = [sweeps EXCEPT ![i].pc = "done"]
  /\ snapshots' = deleteMany(snapshots, sweeps[i].now)
  /\ UNCHANGED <<now, sessions, contexts, taken, tasks, shares, lastResult,
                 lastRestore, acked, nUpdates, lastList>>

(***************************************************************************)
(* The client: browser storage (session-storage) and the controller        *)
(* (useSessionRecovery).  The code between two awaits runs as one step.    *)
(* A write to or read from browser storage takes effect when it is issued: *)
(* IndexedDB serves the requests of one page in the order they were made.  *)
(***************************************************************************)
Identity == "U1"           \* the identity of the session cookie
EmptyId == ""              \* useState<string>('')
FreshId == "tok-none"      \* an id generateClientSessionId makes up: no Session has it
NoError == "null"

Null == [present |-> FALSE, data |-> Empty]
Some(p) == [present |-> TRUE, data |-> p]

Put(m, k, v) == (k :> v) @@ m

\* getOrCreateSessionId: the id kept in localStorage, else a new one
getOrCreateSessionId(st) == IF st.sessionId # NoToken THEN st.sessionId ELSE FreshId

\* how localStorage answers getOrCreateSessionId
IdAccesses == {"ok", "getItemThrows", "setItemThrows"}

\* getOrCreateSessionId has no try: the exception of localStorage.getItem, or
\* of localStorage.setItem when a new id has to be kept, leaves the function
getOrCreateSessionIdThrows(st) ==
  \/ st.idAccess = "getItemThrows"
  \/ st.idAccess = "setItemThrows" /\ st.sessionId = NoToken

\* `${STORAGE_KEY}_${sessionId}`
StorageKey(sessionId) == <<"quantfident_session_data", sessionId>>

\* JSON.stringify of a payload: the text, as the set of its members, each
\* with the members of its value
JSONstringify(data) ==
  {<<k, {<<f, data[k][f]>> : f \in DOMAIN data[k]}>> : k \in DOMAIN data}

\* JSON.parse of such a text
JSONparse(text) ==
  [k \in {m[1] : m \in text} |->
     LET members == (CHOOSE m \in text : m[1] = k)[2]
     IN [f \in {p[1] : p \in members} |-> (CHOOSE p \in members : p[1] = f)[2]]]

\* saveSessionContextLocal: IndexedDB put, on failure
\* localStorage.setItem(`${STORAGE_KEY}_${sessionId}`, JSON.stringify(contextData))
saveSessionContextLocal(st, key, data, dbOk) ==
  IF dbOk THEN [st EXCEPT !.idb = Put(@, key, data)]
          ELSE [st EXCEPT !.ls = Put(@, StorageKey(key), JSONstringify(data))]

\* a load that knows the primary store only
loadSessionContextPrimaryOnly(st, key, dbOk) ==
  IF dbOk /\ key \in DOMAIN st.idb THEN Some(st.idb[key]) ELSE Null

\* loadSessionContextLocal: IndexedDB get (result?.contextData || null), on
\* failure localStorage.getItem and stored ? JSON.parse(stored) : null
loadSessionContextLocal(st, key, dbOk) ==
  IF dbOk THEN (IF key \in DOMAIN st.idb THEN Some(st.idb[key]) ELSE Null)
          ELSE (IF StorageKey(key) \in DOMAIN st.ls
                  THEN Some(JSONparse(st.ls[StorageKey(key)])) ELSE Null)

\* getSessionContextServer: GET /api/sessions/context, null unless 200
getSessionContextServer(sid, netOk) ==
  IF netOk /\ sid # EmptyId /\ sid \in DOMAIN contexts
    THEN Some(contexts[sid].contextData) ELSE Null

\* restoreSnapshotServer: POST /api/sessions/snapshots/<id>/restore, null unless 200
restoreSnapshotServer(id, netOk) ==
  IF netOk /\ restoreFromSnapshot(id, Identity).status = "ok"
    THEN Some(restoreFromSnapshot(id, Identity).snapshotData) ELSE Null

\* snapshots the registry holds when the page loads
CtlSnapshots ==
  (1 :> [userId |-> "U1", sessionId |-> "tok-1",
         snapshotData |-> [theme |-> V2], snapshotName |-> "before-font",
         createdAt |-> 0, expiresAt |-> SnapshotTTL, isManual |-> TRUE,
         source |-> "manual"])
  @@
  (2 :> [userId |-> "U2", sessionId |-> "tok-u2",
         snapshotData |-> [font |-> V2], snapshotName |-> NoName,
         createdAt |-> 0, expiresAt |-> SnapshotTTL, isManual |-> FALSE,
         source |-> "auto"])

InitialSnapshotIds == {0, 1, 2}     \* 0: no initialSnapshotId
StoredSessionIds == {NoToken, "tok-1", "tok-exp"}

HookInit ==
  [sessionId |-> EmptyId, contextData |-> Empty, isLoading |-> TRUE,
   isSyncing |-> FALSE, error |-> NoError, snapshots |-> <<>>]

AutoSavePeriod == 2        \* autoSaveInterval, in ticks of the page's clock
AutoSaveIntervals == {0, AutoSavePeriod}

NoTimer == [armed |-> FALSE, sessionId |-> EmptyId, contextData |-> Empty,
            elapsed |-> 0, overdue |-> 0, fired |-> 0]

NoListener == [subscribed |-> FALSE, heard |-> 0]

\* no loadSessionContextLocal call has returned; nothing was saved
NoLoad == [key |-> NoToken, result |-> Null, current |-> FALSE]
NoSaves == [last |-> [k \in {} |-> Empty], primaryWorked |-> FALSE]

\* no request has been answered
NoReply == [route |-> "none", user |-> NoUser, token |-> NoToken, status |-> 0,
            contextData |-> Empty]

\* the other tab before its hook is mounted
NoPeer == [subscribed |-> FALSE, contextData |-> Empty, heard |-> 0, since |-> 0]

PageIdle ==
  /\ posted = <<>>
  /\ timer = NoTimer
  /\ listener = NoListener
  /\ mounted = TRUE
  /\ peer = NoPeer
  /\ delivered = {}
  /\ loaded = NoLoad
  /\ saves = NoSaves
  /\ lastList = NoList
  /\ sweeps = <<>>
  /\ lastReply = NoReply
  /\ callers = <<>>
  /\ fired = <<>>
  /\ invoked = {}

Idle == [pc |-> "start", sessionId |-> EmptyId, resp |-> Null, threw |-> FALSE,
         since |-> {}, opened |-> FALSE]

\* the controller not mounted
CtlIdle ==
  /\ options = [initialSnapshotId |-> 0, syncWithServerOnMount |-> TRUE,
                restoreOnMount |-> TRUE, autoSaveInterval |-> AutoSavePeriod]
  /\ hook = HookInit
  /\ view = [sessionId |-> EmptyId, contextData |-> Empty]
  /\ initializing = Idle
  /\ store = [idb |-> [k \in {} |-> Empty], ls |-> [k \in {} |-> Empty],
              sessionId |-> NoToken, idAccess |-> "ok"]
  /\ calls = <<>>
  /\ PageIdle

\* the hook mounted in a page: first render done, effects not yet run
CtlInit ==
  /\ now = 0
  /\ sessions = InitSessions
  /\ contexts = InitContexts
  /\ snapshots = CtlSnapshots
  /\ taken = <<[theme |-> V2], [font |-> V2]>>
  /\ tasks = <<>>
  /\ shares = <<>>
  /\ lastResult = NoResult
  /\ lastRestore = NoRestore
  /\ acked = [t \in Tokens |-> {}]
  /\ nUpdates = 0
  /\ options \in [initialSnapshotId : InitialSnapshotIds,
                  syncWithServerOnMount : BOOLEAN, restoreOnMount : BOOLEAN,
                  autoSaveInterval : AutoSaveIntervals]
  /\ hook = HookInit
  /\ view = [sessionId |-> EmptyId, contextData |-> Empty]
  /\ initializing = Idle
  /\ \E sid \in StoredSessionIds, access \in IdAccesses :
       store = [idb |-> ("tok-1" :> [font |-> V2]), ls |-> [k \in {} |-> Empty],
                sessionId |-> sid, idAccess |-> access]
  /\ calls = <<>>
  /\ PageIdle

(***************************************************************************)
(* initializeSession                                                       *)
(***************************************************************************)
\* a finally block that is skipped when the body threw
finallyUnlessThrown(h, threw) == IF threw THEN h ELSE [h EXCEPT !.isLoading = FALSE]

\* finally { setIsLoading(false) }
finallyBlock(h, threw) == [h EXCEPT !.isLoading = FALSE]

Going(h, pc, resp) == [hook |-> h, pc |-> pc, resp |-> resp]

\* "Fall back to local storage", then "Initialize with empty context"
fromLocal(h, sid, dbOk) ==
  IF options.restoreOnMount
    THEN Going(h, "loadingLocal", loadSessionContextLocal(store, sid, dbOk))
    ELSE Going(finallyBlock([h EXCEPT !.contextData = Empty], FALSE), "done", Null)

\* "Try to load from server first"
fromServer(h, sid, dbOk) ==
  IF options.syncWithServerOnMount
    THEN Going(h, "fetching", Null)
    ELSE fromLocal(h, sid, dbOk)

\* "Try to restore from snapshot if provided"
fromSnapshot(h, sid, dbOk) ==
  IF options.initialSnapshotId # 0
    THEN Going(h, "restoring", Null)
    ELSE fromServer(h, sid, dbOk)

Go(g) ==
  /\ hook' = g.hook
  /\ initializing' = [initializing EXCEPT !.pc = g.pc, !.resp = g.resp, !.since = {}]

\* the effects of the mount: initializeSession() up to its first await, the
\* auto-save effect (no session id yet: no interval), onSessionStorageChange
InitializeSession ==
  /\ initializing.pc = "start"
  /\ hook' = [hook EXCEPT !.isLoading = TRUE, !.error = NoError]
  /\ initializing' = [initializing EXCEPT !.pc = "openingDb"]
  /\ listener' = [listener EXCEPT !.subscribed = TRUE]
  /\ UNCHANGED <<regVars, options, view, store, calls, posted, timer, mounted, tabVars, cacheVars, sweepVars, routeVars, eventVars>>

\* await initializeSessionDB() settles; on success the session id is
\* resolved; an exception of either call goes to the catch block
InitDbOpened(opened, dbOk) ==
  /\ initializing.pc = "openingDb"
  /\ IF opened /\ ~getOrCreateSessionIdThrows(store)
       THEN LET sid == getOrCreateSessionId(store)
                g == fromSnapshot([hook EXCEPT !.sessionId = sid], sid, dbOk)
            IN /\ hook' = g.hook
               /\ initializing' = [initializing EXCEPT !.pc = g.pc, !.resp = g.resp,
                                                       !.sessionId = sid, !.opened = TRUE]
               /\ store' = [store EXCEPT !.sessionId = sid]
       ELSE /\ hook' = finallyBlock([hook EXCEPT !.error = "Failed to initialize session"], TRUE)
            /\ initializing' = [initializing EXCEPT !.pc = "done", !.threw = TRUE,
                                                    !.opened = opened]
            /\ UNCHANGED store
  /\ UNCHANGED <<regVars, options, view, calls>>
  /\ UNCHANGED pageVars

\* the registry answers the restore request of initializeSession, or the fetch fails
InitSnapshotServed(netOk) ==
  /\ initializing.pc = "restoring"
  /\ initializing' = [initializing EXCEPT !.pc = "restored",
                        !.resp = restoreSnapshotServer(options.initialSnapshotId, netOk)]
  /\ lastRestore' = (IF netOk THEN restoreFromSnapshot(options.initialSnapshotId, Identity)
                              ELSE lastRestore)
  /\ UNCHANGED <<now, sessions, contexts, snapshots, taken, tasks, shares,
                 lastResult, acked, nUpdates>>
  /\ UNCHANGED <<options, hook, view, store, calls>>
  /\ UNCHANGED pageVars

\* a response that is merged into the context
adoptMerging(h, data) == [h EXCEPT !.contextData = Merge(@, data)]

\* setContextData(response): the response replaces the whole context
adoptWhole(h, data) == [h EXCEPT !.contextData = data]

\* const snapshotData = await restoreSnapshotServer(...); if (snapshotData) { ... return }
InitSnapshotReceived(dbOk) ==
  /\ initializing.pc = "restored"
  /\ IF initializing.resp.present
       THEN /\ hook' = adoptWhole(hook, initializing.resp.data)
            /\ store' = saveSessionContextLocal(store, initializing.sessionId,
                                                initializing.resp.data, dbOk)
            /\ initializing' = [initializing EXCEPT !.pc = "savingLocal", !.resp = Null,
                                                       !.since = {}]
       ELSE /\ Go(fromServer(hook, initializing.sessionId, dbOk))
            /\ UNCHANGED store
  /\ UNCHANGED <<regVars, options, view, calls>>
  /\ UNCHANGED pageVars

\* the registry answers the context request of initializeSession, or the fetch fails
InitContextServed(netOk) ==
  /\ initializing.pc = "fetching"
  /\ initializing' = [initializing EXCEPT !.pc = "fetched",
                        !.resp = getSessionContextServer(initializing.sessionId, netOk)]
  /\ UNCHANGED <<regVars, options, hook, view, store, calls>>
  /\ UNCHANGED pageVars

\* const serverContext = await getSessionContextServer(...); if (serverContext) { ... return }
InitContextReceived(dbOk) ==
  /\ initializing.pc = "fetched"
  /\ IF initializing.resp.present
       THEN /\ hook' = adoptWhole(hook, initializing.resp.data)
            /\ store' = saveSessionContextLocal(store, initializing.sessionId,
                                                initializing.resp.data, dbOk)
            /\ initializing' = [initializing EXCEPT !.pc = "savingLocal", !.resp = Null,
                                                       !.since = {}]
       ELSE /\ Go(fromLocal(hook, initializing.sessionId, dbOk))
            /\ UNCHANGED store
  /\ UNCHANGED <<regVars, options, view, calls>>
  /\ UNCHANGED pageVars

\* await saveSessionContextLocal(...); return; finally
InitLocalSaved ==
  /\ initializing.pc = "savingLocal"
  /\ hook' = finallyBlock(hook, FALSE)
  /\ initializing' = [initializing EXCEPT !.pc = "done"]
  /\ UNCHANGED <<regVars, options, view, store, calls>>
  /\ UNCHANGED pageVars

\* const localContext = await loadSessionContextLocal(...); else setContextData({})
InitLocalLoaded ==
  /\ initializing.pc = "loadingLocal"
  /\ hook' = finallyBlock(
               [hook EXCEPT !.contextData = IF initializing.resp.present
                                              THEN initializing.resp.data ELSE Empty],
               FALSE)
  /\ initializing' = [initializing EXCEPT !.pc = "done", !.resp = Null]
  /\ UNCHANGED <<regVars, options, view, store, calls>>
  /\ UNCHANGED pageVars

\* the auto-save effect runs again: clearInterval of the old interval, then
\* if (autoSaveInterval && sessionId) setInterval(push of this render's
\* sessionId and contextData, autoSaveInterval)
setInterval(t) ==
  IF options.autoSaveInterval # 0 /\ hook.sessionId # EmptyId
    THEN [t EXCEPT !.armed = TRUE, !.sessionId = hook.sessionId,
                   !.contextData = hook.contextData, !.elapsed = 0]
    ELSE [t EXCEPT !.armed = FALSE, !.sessionId = EmptyId,
                   !.contextData = Empty, !.elapsed = 0]

\* React renders again: the callbacks now close over the current state, and
\* the effects that depend on sessionId or contextData run again
Render ==
  /\ mounted
  /\ view # [sessionId |-> hook.sessionId, contextData |-> hook.contextData]
  /\ view' = [sessionId |-> hook.sessionId, contextData |-> hook.contextData]
  /\ timer' = setInterval(timer)
  /\ UNCHANGED <<regVars, options, hook, initializing, store, calls>>
  /\ UNCHANGED <<posted, listener, mounted, tabVars, cacheVars, sweepVars, routeVars, eventVars>>

(***************************************************************************)
(* updateContext and restoreSnapshot of the hook                           *)
(***************************************************************************)
NewCall(op, sid, data, id, sync) ==
  [op |-> op, pc |-> IF op = "update" THEN "savingLocal" ELSE "restoring",
   sessionId |-> sid, updates |-> data, snapshotId |-> id,
   syncToServer |-> sync, task |-> 0, resp |-> Null, since |-> {},
   captured |-> Empty, via |-> "direct", returned |-> "none", rows |-> <<>>]

Done(c) == [NewCall(c.op, EmptyId, Empty, 0, FALSE) EXCEPT !.pc = "done"]

AwaitsServer(pc) == pc \in {"restoring", "restored", "fetching", "fetched"}

\* history: the keys updateContext has set while a response was under way
NoteKeys(cs, keys) ==
  [j \in DOMAIN cs |->
     IF cs[j].op = "restore" /\ AwaitsServer(cs[j].pc)
       THEN [cs[j] EXCEPT !.since = @ \cup keys] ELSE cs[j]]

\* an update that starts from the current state, not from the rendered one
newContextDataFromState(updates) == Merge(hook.contextData, updates)

\* const newContextData = { ...contextData, ...updates }
newContextData(updates) == Merge(view.contextData, updates)

\* updateContext(updates, syncToServer) up to its first await
UpdateContextCall(updates, sync, dbOk) ==
  /\ hook' = [hook EXCEPT !.contextData = newContextData(updates)]
  /\ store' = saveSessionContextLocal(store, view.sessionId, newContextData(updates), dbOk)
  /\ calls' = Append(NoteKeys(calls, DOMAIN updates),
                     NewCall("update", view.sessionId, updates, 0, sync))
  /\ initializing' = (IF AwaitsServer(initializing.pc)
                        THEN [initializing EXCEPT !.since = @ \cup DOMAIN updates]
                        ELSE initializing)
  /\ UNCHANGED <<regVars, options, view>>
  /\ UNCHANGED pageVars

\* the keys of a payload, one after the other
RECURSIVE Entries(_, _)
Entries(U, keys) ==
  IF keys = {} THEN <<>>
  ELSE LET k == CHOOSE x \in keys : TRUE
       IN <<[contextKey |-> k, contextValue |-> U[k]]>> \o Entries(U, keys \ {k})

\* broadcastSessionUpdate: postMessage on a BroadcastChannel, and when the
\* channel cannot be made, a localStorage item
broadcastSessionUpdate(m, bcOk) ==
  [contextKey |-> m.contextKey, contextValue |-> m.contextValue,
   via |-> IF bcOk THEN "BroadcastChannel" ELSE "localStorage"]

\* one message for the whole partial
broadcastWhole(updates, bcOk) ==
  IF updates = Empty THEN <<>>
  ELSE <<[contextKey |-> "*", contextValue |-> updates,
          via |-> IF bcOk THEN "BroadcastChannel" ELSE "localStorage"]>>

\* Object.entries(updates).forEach(([key, value]) => broadcastSessionUpdate(key, value))
broadcastEach(updates, bcOk) ==
  LET es == Entries(updates, DOMAIN updates)
  IN [n \in DOMAIN es |-> broadcastSessionUpdate(es[n], bcOk)]

\* await saveSessionContextLocal; if (syncToServer && sessionId) push the updates;
\* without a push, or when the fetch fails, the keys are broadcast right away
UpdateContextSaved(i, netOk, bcOk) ==
  /\ calls[i].op = "update" /\ calls[i].pc = "savingLocal"
  /\ IF calls[i].syncToServer /\ calls[i].sessionId # EmptyId /\ netOk
       THEN /\ UpdateCall(calls[i].sessionId, calls[i].updates)
            /\ calls' = [calls EXCEPT ![i].pc = "pushing", ![i].task = Len(tasks) + 1]
            /\ UNCHANGED posted
       ELSE /\ calls' = [calls EXCEPT ![i] = Done(calls[i])]
            /\ posted' = posted \o broadcastEach(calls[i].updates, bcOk)
            /\ UNCHANGED regVars
  /\ UNCHANGED <<options, hook, view, initializing, store, timer, listener, mounted, tabVars, cacheVars, sweepVars, routeVars, eventVars>>

\* await updateSessionContextServer(...) returns; the changed keys are broadcast
UpdateContextPushed(i, bcOk) ==
  /\ calls[i].op = "update" /\ calls[i].pc = "pushing"
  /\ tasks[calls[i].task].pc = "done"
  /\ calls' = [calls EXCEPT ![i] = Done(calls[i])]
  /\ posted' = posted \o broadcastEach(calls[i].updates, bcOk)
  /\ UNCHANGED <<regVars, options, hook, view, initializing, store, timer, listener, mounted,
                 tabVars, cacheVars, sweepVars, routeVars, eventVars>>

\* restoreSnapshot(snapshotId) up to its first await
RestoreSnapshotCall(id) ==
  /\ hook' = [hook EXCEPT !.isSyncing = TRUE]
  /\ calls' = Append(calls, NewCall("restore", view.sessionId, Empty, id, TRUE))
  /\ UNCHANGED <<regVars, options, view, initializing, store>>
  /\ UNCHANGED pageVars

\* the registry answers the restore request, or the fetch fails
RestoreSnapshotServed(i, netOk) ==
  /\ calls[i].op = "restore" /\ calls[i].pc = "restoring"
  /\ calls' = [calls EXCEPT ![i].pc = "restored",
                 ![i].resp = restoreSnapshotServer(calls[i].snapshotId, netOk)]
  /\ lastRestore' = (IF netOk THEN restoreFromSnapshot(calls[i].snapshotId, Identity)
                              ELSE lastRestore)
  /\ UNCHANGED <<now, sessions, contexts, snapshots, taken, tasks, shares,
                 lastResult, acked, nUpdates>>
  /\ UNCHANGED <<options, hook, view, initializing, store>>
  /\ UNCHANGED pageVars

\* const restoredData = await restoreSnapshotServer(id); if (restoredData) { ... }
RestoreSnapshotReceived(i, dbOk) ==
  /\ calls[i].op = "restore" /\ calls[i].pc = "restored"
  /\ IF calls[i].resp.present
       THEN /\ hook' = adoptWhole(hook, calls[i].resp.data)
            /\ store' = saveSessionContextLocal(store, calls[i].sessionId,
                                                calls[i].resp.data, dbOk)
            /\ calls' = [calls EXCEPT ![i].pc = "savingLocal",
                           ![i].updates = calls[i].resp.data,
                           ![i].resp = Null, ![i].since = {}]
       ELSE /\ hook' = [hook EXCEPT !.isSyncing = FALSE]
            /\ calls' = [calls EXCEPT ![i] = Done(calls[i])]
            /\ UNCHANGED store
  /\ UNCHANGED <<regVars, options, view, initializing>>
  /\ UNCHANGED pageVars

\* await saveSessionContextLocal; then the restored data is pushed (the route
\* answers 400 to an empty X-Session-ID and the call leaves the registry alone)
RestoreSnapshotSaved(i, netOk) ==
  /\ calls[i].op = "restore" /\ calls[i].pc = "savingLocal"
  /\ IF calls[i].sessionId # EmptyId /\ netOk
       THEN /\ UpdateCall(calls[i].sessionId, calls[i].updates)
            /\ calls' = [calls EXCEPT ![i].pc = "pushing", ![i].task = Len(tasks) + 1]
            /\ UNCHANGED hook
       ELSE /\ calls' = [calls EXCEPT ![i] = Done(calls[i])]
            /\ hook' = [hook EXCEPT !.isSyncing = FALSE]
            /\ UNCHANGED regVars
  /\ UNCHANGED <<options, view, initializing, store>>
  /\ UNCHANGED pageVars

\* await updateSessionContextServer(...) returns; return true; finally
RestoreSnapshotPushed(i) ==
  /\ calls[i].op = "restore" /\ calls[i].pc = "pushing"
  /\ tasks[calls[i].task].pc = "done"
  /\ calls' = [calls EXCEPT ![i] = Done(calls[i])]
  /\ hook' = [hook EXCEPT !.isSyncing = FALSE]
  /\ UNCHANGED <<regVars, options, view, initializing, store>>
  /\ UNCHANGED pageVars

(***************************************************************************)
(* shareContext of the hook.  The route answers when Promise.all settles:  *)
(* with 500 as soon as one updateSessionContext of the fan-out has         *)
(* rejected, with success when all of them have resolved.                  *)
(***************************************************************************)
Children(n) == {j \in DOMAIN tasks : tasks[j].share = n}

shareRejected(n) ==
  \E j \in Children(n) : tasks[j].pc = "done" /\ tasks[j].result # "ok"

shareResolved(n) ==
  \A j \in Children(n) : tasks[j].pc = "done" /\ tasks[j].result = "ok"

\* updateContext's default for syncToServer
shareSyncDefault == TRUE

\* await updateContext({ [key]: value }, false)
shareSync == FALSE

\* shareContext(key, value) up to its await: the request to /api/sessions/share
\* reaches the registry or fails
ShareContextCall(key, value, netOk) ==
  /\ calls' = Append(calls,
                [NewCall("share", view.sessionId, (key :> value), 0, shareSync)
                   EXCEPT !.pc = "sharing", !.captured = view.contextData,
                          !.task = IF netOk THEN Len(shares) + 1 ELSE 0])
  /\ IF netOk THEN ShareCall(Identity, key, value) ELSE UNCHANGED regVars
  /\ UNCHANGED <<options, hook, view, initializing, store>>
  /\ UNCHANGED pageVars

\* const success = await shareContextAcrossSessions(key, value); on success
\* the updateContext of the render that made the call runs up to its await
ShareContextReturned(i, dbOk) ==
  /\ calls[i].op = "share" /\ calls[i].pc = "sharing"
  /\ LET n == calls[i].task
         success == n # 0 /\ shareResolved(n)
         failure == n = 0 \/ shareRejected(n)
         merged == Merge(calls[i].captured, calls[i].updates)
     IN /\ success \/ failure
        /\ IF success
             THEN /\ hook' = [hook EXCEPT !.contextData = merged]
                  /\ store' = saveSessionContextLocal(store, calls[i].sessionId, merged, dbOk)
                  /\ calls' = [NoteKeys(calls, DOMAIN calls[i].updates) EXCEPT ![i] =
                                 [NewCall("update", calls[i].sessionId, calls[i].updates,
                                          0, shareSync) EXCEPT !.via = "share"]]
                  /\ initializing' =
                       (IF AwaitsServer(initializing.pc)
                          THEN [initializing EXCEPT !.since = @ \cup DOMAIN calls[i].updates]
                          ELSE initializing)
             ELSE /\ calls' = [calls EXCEPT ![i] = [Done(calls[i]) EXCEPT !.returned = "false"]]
                  /\ UNCHANGED <<hook, store, initializing>>
  /\ UNCHANGED <<regVars, options, view>>
  /\ UNCHANGED pageVars

(***************************************************************************)
(* createSnapshot, loadSnapshots and syncWithServer of the hook            *)
(***************************************************************************)
\* `snapshot_${result.id}`
SnapshotKey(id) == "snapshot_" \o ToString(id)

HookListLimit == 10        \* listSnapshotsServer(10)

\* request.headers.get('X-Session-ID') of an empty header, then `|| undefined`
headerOrUndefined(sid) == IF sid = EmptyId THEN NoToken ELSE sid

\* createSnapshot(snapshotName) up to its first await: the request to
\* /api/sessions/snapshots reaches the registry or fails
CreateSnapshotCall(name, netOk) ==
  /\ hook' = [hook EXCEPT !.isSyncing = TRUE]
  /\ calls' = Append(calls,
                [NewCall("snapshot", view.sessionId, view.contextData,
                         IF netOk THEN Len(taken) + 1 ELSE 0, TRUE)
                   EXCEPT !.pc = "creating"])
  /\ IF netOk
       THEN CreateSnapshot(Identity, headerOrUndefined(view.sessionId),
                           view.contextData, name)
       ELSE UNCHANGED regVars
  /\ UNCHANGED <<options, view, initializing, store>>
  /\ UNCHANGED pageVars

\* const result = await createSnapshotServer(...); if (result) save the
\* context under the snapshot's key, else return null; finally
CreateSnapshotReturned(i, dbOk) ==
  /\ calls[i].op = "snapshot" /\ calls[i].pc = "creating"
  /\ IF calls[i].snapshotId # 0
       THEN /\ store' = saveSessionContextLocal(store, SnapshotKey(calls[i].snapshotId),
                                                calls[i].updates, dbOk)
            /\ calls' = [calls EXCEPT ![i].pc = "savingLocal"]
            /\ UNCHANGED hook
       ELSE /\ calls' = [calls EXCEPT ![i] = [Done(calls[i]) EXCEPT !.returned = "null"]]
            /\ hook' = [hook EXCEPT !.isSyncing = FALSE]
            /\ UNCHANGED store
  /\ UNCHANGED <<regVars, options, view, initializing>>
  /\ UNCHANGED pageVars

\* the request of listSnapshotsServer(10) reaches the registry or fails
listSnapshotsRequest(netOk) ==
  IF netOk THEN ListSnapshots(Identity, HookListLimit)
           ELSE UNCHANGED <<lastList, sweeps>>

\* the rows a call is waiting for
Listing(c, netOk) ==
  [c EXCEPT !.pc = "listing", !.resp = IF netOk THEN Some(Empty) ELSE Null,
            !.rows = IF netOk THEN lastList'.rows ELSE <<>>]

\* await saveSessionContextLocal returns; await loadSnapshots()
CreateSnapshotSaved(i, netOk) ==
  /\ calls[i].op = "snapshot" /\ calls[i].pc = "savingLocal"
  /\ listSnapshotsRequest(netOk)
  /\ calls' = [calls EXCEPT ![i] = Listing(calls[i], netOk)]
  /\ UNCHANGED <<regVars, options, hook, view, initializing, store>>
  /\ UNCHANGED <<posted, timer, listener, mounted, tabVars, cacheVars, routeVars, eventVars>>

\* loadSnapshots() up to its await
LoadSnapshotsCall(netOk) ==
  /\ listSnapshotsRequest(netOk)
  /\ calls' = Append(calls, Listing(NewCall("list", view.sessionId, Empty, 0, FALSE), netOk))
  /\ UNCHANGED <<regVars, options, hook, view, initializing, store>>
  /\ UNCHANGED <<posted, timer, listener, mounted, tabVars, cacheVars, routeVars, eventVars>>

\* if (snapshotList) setSnapshots(snapshotList); createSnapshot then returns
\* result.id; finally
SnapshotsListed(i) ==
  /\ calls[i].pc = "listing"
  /\ hook' = [hook EXCEPT
                !.snapshots = IF calls[i].resp.present THEN calls[i].rows ELSE @,
                !.isSyncing = IF calls[i].op = "snapshot" THEN FALSE ELSE @]
  /\ calls' = [calls EXCEPT ![i] =
                 [Done(calls[i]) EXCEPT
                    !.returned = IF calls[i].op = "snapshot" THEN "id" ELSE "none"]]
  /\ UNCHANGED <<regVars, options, view, initializing, store>>
  /\ UNCHANGED pageVars

\* syncWithServer() up to its await: the whole context is pushed (the route
\* answers 400 to an empty X-Session-ID and the call leaves the registry alone)
SyncWithServerCall(netOk) ==
  /\ hook' = [hook EXCEPT !.isSyncing = TRUE]
  /\ IF view.sessionId # EmptyId /\ netOk
       THEN /\ UpdateCall(view.sessionId, view.contextData)
            /\ calls' = Append(calls,
                          [NewCall("sync", view.sessionId, view.contextData, 0, TRUE)
                             EXCEPT !.pc = "pushing", !.task = Len(tasks) + 1])
       ELSE /\ calls' = Append(calls,
                          [NewCall("sync", view.sessionId, view.contextData, 0, TRUE)
                             EXCEPT !.pc = "pushing"])
            /\ UNCHANGED regVars
  /\ UNCHANGED <<options, view, initializing, store>>
  /\ UNCHANGED pageVars

\* const success = await updateSessionContextServer(...); return success; finally
SyncWithServerReturned(i) ==
  /\ calls[i].op = "sync" /\ calls[i].pc = "pushing"
  /\ calls[i].task # 0 => tasks[calls[i].task].pc = "done"
  /\ calls' = [calls EXCEPT ![i] =
                 [Done(calls[i]) EXCEPT
                    !.returned = IF calls[i].task # 0 /\ tasks[calls[i].task].result = "ok"
                                   THEN "true" ELSE "false"]]
  /\ hook' = [hook EXCEPT !.isSyncing = FALSE]
  /\ UNCHANGED <<regVars, options, view, initializing, store>>
  /\ UNCHANGED pageVars

(***************************************************************************)
(* The auto-save interval, the storage listener and the unmount.  Time is  *)
(* counted in ticks of the page's clock while an interval is running; an   *)
(* interval that is due fires before the next tick.                        *)
(***************************************************************************)
TimerTick ==
  /\ timer.armed /\ timer.elapsed < AutoSavePeriod
  /\ timer.overdue <= AutoSavePeriod
  /\ timer' = [timer EXCEPT !.elapsed = @ + 1, !.overdue = @ + 1]
  /\ UNCHANGED <<regVars, options, hook, view, initializing, store, calls>>
  /\ UNCHANGED <<posted, listener, mounted, tabVars, cacheVars, sweepVars, routeVars, eventVars>>

\* the interval callback: updateSessionContextServer(sessionId, contextData)
\* with the values of the render that set the interval; a failure is logged
AutoSaveFire(netOk) ==
  /\ timer.armed /\ timer.elapsed = AutoSavePeriod
  /\ timer.fired < MaxFires
  /\ timer' = [timer EXCEPT !.elapsed = 0, !.overdue = 0, !.fired = @ + 1]
  /\ IF netOk THEN UpdateCall(timer.sessionId, timer.contextData)
              ELSE UNCHANGED regVars
  /\ UNCHANGED <<options, hook, view, initializing, store, calls>>
  /\ UNCHANGED <<posted, listener, mounted, tabVars, cacheVars, sweepVars, routeVars, eventVars>>

\* a cleanup that leaves the interval running
keepInterval(t) == t

\* clearInterval(autoSaveTimerRef.current)
clearInterval(t) ==
  [t EXCEPT !.armed = FALSE, !.sessionId = EmptyId, !.contextData = Empty,
            !.elapsed = 0, !.overdue = 0]

\* the component unmounts: the cleanups of the auto-save effect and of the
\* cross-tab effect run
Dispose ==
  /\ mounted /\ initializing.pc # "start"
  /\ mounted' = FALSE
  /\ timer' = clearInterval(timer)
  /\ listener' = [listener EXCEPT !.subscribed = FALSE]
  /\ UNCHANGED <<regVars, options, hook, view, initializing, store, calls, posted, tabVars, cacheVars, sweepVars, routeVars, eventVars>>

\* a storage event whose key starts with STORAGE_KEY reaches the listener:
\* setContextData(prev => ({ ...prev, ...data }))
StorageEvent(data) ==
  /\ listener.subscribed /\ listener.heard < MaxEvents
  /\ listener' = [listener EXCEPT !.heard = @ + 1]
  /\ hook' = [hook EXCEPT !.contextData = Merge(@, data)]
  /\ UNCHANGED <<regVars, options, view, initializing, store, calls>>
  /\ UNCHANGED <<posted, timer, mounted, tabVars, cacheVars, sweepVars, routeVars, eventVars>>

(***************************************************************************)
(* Two tabs of one origin.  The page of the hook is document "A"; "B" is   *)
(* another tab running the same hook, of which only the cross-tab effect   *)
(* is followed.  broadcastSessionUpdate posts on a BroadcastChannel that   *)
(* it closes at once, and only when the channel cannot be made does it set *)
(* a localStorage item; the only listener the code registers anywhere is   *)
(* the 'storage' listener of onSessionStorageChange, so a message posted   *)
(* on the channel has no receiver.                                         *)
(***************************************************************************)
Documents == {"A", "B"}

\* the other tab mounts the hook: its context is loaded and its cross-tab
\* effect calls onSessionStorageChange
PeerSubscribe ==
  /\ ~peer.subscribed
  /\ peer' = [peer EXCEPT !.subscribed = TRUE, !.contextData = [theme |-> V1],
                          !.since = Len(posted)]
  /\ UNCHANGED <<regVars, options, hook, view, initializing, store, calls>>
  /\ UNCHANGED <<posted, timer, listener, mounted, delivered, cacheVars, sweepVars, routeVars, eventVars>>

\* a storage event that is also dispatched in the document that set the item
storageEventEveryDocument(doc) == Documents

\* the browser dispatches 'storage' in every document of the origin except
\* the one whose localStorage.setItem made the change
storageEventTargets(doc) == Documents \ {doc}

\* handleStorageChange: JSON.parse(event.newValue) of the item that
\* broadcastSessionUpdate wrote, JSON.stringify({ contextKey, contextValue })
handleStorageChange(m) == [contextKey |-> m.contextKey, contextValue |-> m.contextValue]

\* the storage event of message n of the page is dispatched in document doc,
\* whose listener was registered before the item was set: callback(data), and
\* the hook's callback is setContextData(prev => ({ ...prev, ...data }))
DeliverStorageEvent(n, doc) ==
  /\ n \in DOMAIN posted /\ posted[n].via = "localStorage"
  /\ doc \in storageEventTargets("A") /\ <<n, doc>> \notin delivered
  /\ delivered' = delivered \cup {<<n, doc>>}
  /\ IF doc = "B"
       THEN /\ peer.subscribed /\ peer.since < n
            /\ peer' = [peer EXCEPT !.contextData = Merge(@, handleStorageChange(posted[n])),
                                    !.heard = @ + 1]
            /\ UNCHANGED <<hook, listener>>
       ELSE /\ listener.subscribed
            /\ hook' = [hook EXCEPT !.contextData = Merge(@, handleStorageChange(posted[n]))]
            /\ listener' = [listener EXCEPT !.heard = @ + 1]
            /\ UNCHANGED peer
  /\ UNCHANGED <<regVars, options, view, initializing, store, calls>>
  /\ UNCHANGED <<posted, timer, mounted, cacheVars, sweepVars, routeVars, eventVars>>

(***************************************************************************)
(* Storage events the other tab causes.  localStorage and IndexedDB belong *)
(* to the origin: both tabs read and write the same items.  A key is kept  *)
(* as the parts its text is made of.                                       *)
(***************************************************************************)
STORAGE_KEY == "quantfident_session_data"
SESSION_ID_KEY == "quantfident_session_id"

\* `${STORAGE_KEY}_broadcast_${Date.now()}`
BroadcastKey(t) == <<STORAGE_KEY, "broadcast", ToString(t)>>

\* event.key?.startsWith(STORAGE_KEY)
startsWith(key, prefix) == key[1] = prefix

\* the 'storage' event of a localStorage.setItem in the other tab
NewEvent(key, newValue) ==
  [key |-> key, newValue |-> newValue, heard |-> listener.subscribed, seen |-> FALSE]

\* the other tab calls getOrCreateSessionId and finds no id
PeerGetOrCreateSessionId ==
  /\ peer.subscribed /\ store.sessionId = NoToken /\ store.idAccess = "ok"
  /\ store' = [store EXCEPT !.sessionId = getOrCreateSessionId(store)]
  /\ fired' = Append(fired, NewEvent(<<SESSION_ID_KEY>>, getOrCreateSessionId(store)))
  /\ UNCHANGED <<regVars, options, hook, view, initializing, calls>>
  /\ UNCHANGED <<posted, timer, listener, mounted, tabVars, cacheVars, sweepVars,
                 routeVars, invoked>>

\* the items saveSessionContextLocal sets when IndexedDB fails
savedItems(sid, data, dbOk) ==
  IF dbOk THEN <<>> ELSE <<NewEvent(StorageKey(sid), JSONstringify(data))>>

\* the items broadcastSessionUpdate sets when the channel cannot be made
broadcastItems(updates, bcOk, t) ==
  LET ms == broadcastEach(updates, bcOk)
  IN [n \in {k \in DOMAIN ms : ~bcOk} |->
        NewEvent(BroadcastKey(t + n), handleStorageChange(ms[n]))]

\* updateContext(updates, false) in the other tab, whose session id is the
\* one localStorage holds: the merged context is saved, the keys are broadcast
PeerUpdateContext(updates, dbOk, bcOk) ==
  /\ peer.subscribed /\ store.sessionId # NoToken
  /\ Len(fired) + 2 <= 2 * MaxEvents
  /\ peer' = [peer EXCEPT !.contextData = Merge(@, updates)]
  /\ store' = saveSessionContextLocal(store, store.sessionId,
                                      Merge(peer.contextData, updates), dbOk)
  /\ fired' = fired \o savedItems(store.sessionId, Merge(peer.contextData, updates), dbOk)
                    \o broadcastItems(updates, bcOk, Len(fired) + 1)
  /\ UNCHANGED <<regVars, options, hook, view, initializing, calls>>
  /\ UNCHANGED <<posted, timer, listener, mounted, delivered, cacheVars, sweepVars,
                 routeVars, invoked>>

\* JSON.parse(event.newValue) of an item the other tab has set
eventData(e) ==
  IF Len(e.key) = 3 THEN e.newValue ELSE JSONparse(e.newValue)

\* the browser dispatches event n in the page, whose listener was registered
\* when the item was set: handleStorageChange, and for a key that passes the
\* test the hook's callback, setContextData(prev => ({ ...prev, ...data }))
PageStorageEvent(n) ==
  /\ ~fired[n].seen /\ fired[n].heard /\ listener.subscribed
  /\ fired' = [fired EXCEPT ![n].seen = TRUE]
  /\ IF startsWith(fired[n].key, STORAGE_KEY)
       THEN /\ hook' = [hook EXCEPT !.contextData = Merge(@, eventData(fired[n]))]
            /\ invoked' = invoked \cup {n}
            /\ listener' = [listener EXCEPT !.heard = @ + 1]
       ELSE UNCHANGED <<hook, invoked, listener>>
  /\ UNCHANGED <<regVars, options, view, initializing, store, calls>>
  /\ UNCHANGED <<posted, timer, mounted, tabVars, cacheVars, sweepVars, routeVars>>

(***************************************************************************)
(* The local cache on its own: saveSessionContextLocal and                 *)
(* loadSessionContextLocal called with any key and payload, each call      *)
(* finding IndexedDB working or failing.                                   *)
(***************************************************************************)
CacheKeys == {EmptyId, "tok-1"}
CachePayloads == {Empty, [theme |-> V1], [theme |-> V2, font |-> V1]}

SaveLocal(key, data, dbOk) ==
  /\ store' = saveSessionContextLocal(store, key, data, dbOk)
  /\ saves' = [last |-> Put(saves.last, key, data),
               primaryWorked |-> saves.primaryWorked \/ dbOk]
  /\ loaded' = [loaded EXCEPT !.current = FALSE]
  /\ UNCHANGED <<regVars, options, hook, view, initializing, calls>>
  /\ UNCHANGED <<posted, timer, listener, mounted, tabVars, sweepVars, routeVars, eventVars>>

LoadLocal(key, dbOk) ==
  /\ loaded' = [key |-> key, result |-> loadSessionContextLocal(store, key, dbOk),
                current |-> TRUE]
  /\ saves' = [saves EXCEPT !.primaryWorked = @ \/ dbOk]
  /\ UNCHANGED <<regVars, options, hook, view, initializing, store, calls>>
  /\ UNCHANGED <<posted, timer, listener, mounted, tabVars, sweepVars, routeVars, eventVars>>

(***************************************************************************)
(* The context routes, POST and GET /api/sessions/context: the identity is *)
(* verified from the session cookie, the session token is taken from the   *)
(* X-Session-ID header and handed to the service as it came.               *)
(***************************************************************************)
NoCookie == "<no cookie>"
StaleCookie == "<stale cookie>"
Cookies == {NoCookie, StaleCookie} \cup Users
\* a request body: whether its contextData is a JSON object, and the object
NoBody == [isObject |-> FALSE, contextData |-> Empty]
RouteTokens == {NoToken, "tok-1", "tok-none"}
RouteBodies == {NoBody, [isObject |-> TRUE, contextData |-> [font |-> V1]]}

\* verifySessionCookie: the user of a cookie that verifies, else null
verifySessionCookie(cookie) == IF cookie \in Users THEN cookie ELSE NoUser

\* the checks both routes make before they call the service; 200: none failed
routeChecks(cookie, tok) ==
  IF cookie = NoCookie THEN 401
  ELSE IF verifySessionCookie(cookie) = NoUser THEN 401
  ELSE IF tok = NoToken THEN 400
  ELSE 200

Reply(route, cookie, tok, status, data) ==
  [route |-> route, user |-> verifySessionCookie(cookie), token |-> tok,
   status |-> status, contextData |-> data]

\* SessionService.getSessionContext: prisma.sessionContext.findUnique
getSessionContext(tok) ==
  IF tok \in DOMAIN contexts THEN Some(contexts[tok].contextData) ELSE Null

\* POST /api/sessions/context up to the first database call of
\* updateSessionContext(clientSessionId, contextData)
ContextPost(cookie, tok, body) ==
  LET status == IF routeChecks(cookie, tok) # 200 THEN routeChecks(cookie, tok)
                ELSE IF ~body.isObject THEN 400 ELSE 200
  IN IF status = 200
       THEN /\ UpdateCall(tok, body.contextData)
            /\ callers' = ((Len(tasks) + 1) :> verifySessionCookie(cookie)) @@ callers
            /\ UNCHANGED lastReply
       ELSE /\ lastReply' = Reply("POST", cookie, tok, status, Empty)
            /\ UNCHANGED <<regVars, callers>>

\* GET /api/sessions/context
ContextGet(cookie, tok) ==
  /\ lastReply' =
       (IF routeChecks(cookie, tok) # 200
          THEN Reply("GET", cookie, tok, routeChecks(cookie, tok), Empty)
          ELSE IF getSessionContext(tok).present
                 THEN Reply("GET", cookie, tok, 200, getSessionContext(tok).data)
                 ELSE Reply("GET", cookie, tok, 404, Empty))
  /\ UNCHANGED <<regVars, callers>>

(***************************************************************************)
(* The share route, POST /api/sessions/share.                              *)
(***************************************************************************)
AnyShareKeys == {"", "theme", "sharedAt"}
AnyShareValues == {V1, V2}

\* if (!contextKey || typeof contextKey !== 'string') 400; else
\* SessionService.shareContextAcrossSessions(user.uid, contextKey, contextValue)
SharePost(cookie, key, value) ==
  LET status == IF routeChecks(cookie, "-") # 200 THEN routeChecks(cookie, "-")
                ELSE IF key = "" THEN 400 ELSE 200
  IN IF status = 200
       THEN /\ ShareCall(verifySessionCookie(cookie), key, value)
            /\ UNCHANGED lastReply
       ELSE /\ lastReply' = Reply("share", cookie, NoToken, status, Empty)
            /\ UNCHANGED regVars

(***************************************************************************)
(* The registry under concurrent context updates.                          *)
(***************************************************************************)
Init == RegInit /\ CtlIdle

Next ==
  \/ \E tok \in UpdateTokens, U \in Partials :
       nUpdates < MaxUpdates /\ UpdateCall(tok, U) /\ UNCHANGED ctlVars
  \/ \E i \in DOMAIN tasks : UpdateFindContext(i) /\ UNCHANGED ctlVars
  \/ \E i \in DOMAIN tasks : UpdateCreate(i) /\ UNCHANGED ctlVars
  \/ \E i \in DOMAIN tasks : UpdateWrite(i) /\ UNCHANGED ctlVars

Spec == Init /\ [][Next]_vars

(***************************************************************************)
(* The registry under fan-outs, direct updates racing them, and the clock. *)
(***************************************************************************)
Calls == nUpdates + Len(shares) + Len(taken)

NextShare ==
  \/ Tick /\ UNCHANGED ctlVars
  \/ \E u \in Users, k \in ShareKeys, v \in ShareValues :
       Calls < MaxCalls /\ Len(shares) < MaxShares /\ ShareCall(u, k, v) /\ UNCHANGED ctlVars
  \/ \E tok \in RivalTokens, U \in Partials :
       Calls < MaxCalls /\ UpdateCall(tok, U) /\ UNCHANGED ctlVars
  \/ \E i \in DOMAIN tasks : UpdateFindSession(i) /\ UNCHANGED ctlVars
  \/ \E i \in DOMAIN tasks : UpdateFindContext(i) /\ UNCHANGED ctlVars
  \/ \E i \in DOMAIN tasks : UpdateCreate(i) /\ UNCHANGED ctlVars
  \/ \E i \in DOMAIN tasks : UpdateWrite(i) /\ UNCHANGED ctlVars

SpecShare == Init /\ [][NextShare]_vars

(***************************************************************************)
(* The registry under snapshot creation and restore, next to updates and   *)
(* fan-outs that change the live contexts.                                 *)
(***************************************************************************)
NextSnap ==
  \/ \E u \in Users, tok \in SnapTokens, name \in SnapNames :
       \E p \in SnapPayloads \cup {Stored(tok)} :
         Calls < MaxCalls /\ CreateSnapshot(u, tok, p, name) /\ UNCHANGED ctlVars
  \/ \E id \in 1..(MaxCalls + 1), u \in Users : Restore(id, u) /\ UNCHANGED ctlVars
  \/ \E u \in SnapSharers, k \in ShareKeys, v \in ShareValues :
       Calls < MaxCalls /\ Len(shares) < MaxShares /\ ShareCall(u, k, v) /\ UNCHANGED ctlVars
  \/ \E tok \in SnapTokens, U \in Partials :
       Calls < MaxCalls /\ UpdateCall(tok, U) /\ UNCHANGED ctlVars
  \/ \E i \in DOMAIN tasks : UpdateFindSession(i) /\ UNCHANGED ctlVars
  \/ \E i \in DOMAIN tasks : UpdateFindContext(i) /\ UNCHANGED ctlVars
  \/ \E i \in DOMAIN tasks : UpdateCreate(i) /\ UNCHANGED ctlVars
  \/ \E i \in DOMAIN tasks : UpdateWrite(i) /\ UNCHANGED ctlVars

SpecSnap == Init /\ [][NextSnap]_vars

(***************************************************************************)
(* The controller of one page together with the registry serving it.       *)
(***************************************************************************)
InitDone == initializing.pc = "done"

RestoreIds == {1, 2}

InitSteps ==
  \/ InitializeSession
  \/ \E opened, dbOk \in BOOLEAN : InitDbOpened(opened, dbOk)
  \/ \E netOk \in BOOLEAN : InitSnapshotServed(netOk)
  \/ \E dbOk \in BOOLEAN : InitSnapshotReceived(dbOk)
  \/ \E netOk \in BOOLEAN : InitContextServed(netOk)
  \/ \E dbOk \in BOOLEAN : InitContextReceived(dbOk)
  \/ InitLocalSaved
  \/ InitLocalLoaded

NextCtl ==
  \/ InitializeSession
  \/ \E opened, dbOk \in BOOLEAN : InitDbOpened(opened, dbOk)
  \/ \E netOk \in BOOLEAN : InitSnapshotServed(netOk)
  \/ \E dbOk \in BOOLEAN : InitSnapshotReceived(dbOk)
  \/ \E netOk \in BOOLEAN : InitContextServed(netOk)
  \/ \E dbOk \in BOOLEAN : InitContextReceived(dbOk)
  \/ InitLocalSaved
  \/ InitLocalLoaded
  \/ Render
  \/ \E U \in Partials, dbOk \in BOOLEAN :
       Len(calls) < MaxHookCalls /\ UpdateContextCall(U, TRUE, dbOk)
  \/ \E i \in DOMAIN calls, netOk \in BOOLEAN : UpdateContextSaved(i, netOk, TRUE)
  \/ \E i \in DOMAIN calls : UpdateContextPushed(i, TRUE)
  \/ \E id \in RestoreIds : Len(calls) < MaxHookCalls /\ RestoreSnapshotCall(id)
  \/ \E i \in DOMAIN calls, netOk \in BOOLEAN : RestoreSnapshotServed(i, netOk)
  \/ \E i \in DOMAIN calls, dbOk \in BOOLEAN : RestoreSnapshotReceived(i, dbOk)
  \/ \E i \in DOMAIN calls, netOk \in BOOLEAN : RestoreSnapshotSaved(i, netOk)
  \/ \E i \in DOMAIN calls : RestoreSnapshotPushed(i)
  \/ \E i \in DOMAIN tasks : UpdateFindContext(i) /\ UNCHANGED ctlVars
  \/ \E i \in DOMAIN tasks : UpdateCreate(i) /\ UNCHANGED ctlVars
  \/ \E i \in DOMAIN tasks : UpdateWrite(i) /\ UNCHANGED ctlVars

\* a page under the default options, with or without an initial snapshot,
\* whose storage names a session that has a Context (tok-1) or has none (tok-exp)
PageInit ==
  /\ CtlInit
  /\ store.sessionId \in {"tok-1", "tok-exp"} /\ store.idAccess = "ok"
  /\ options.initialSnapshotId \in {0, 1}
  /\ options.restoreOnMount /\ options.syncWithServerOnMount
  /\ options.autoSaveInterval = 0

SpecCtl == PageInit /\ [][NextCtl]_vars

(***************************************************************************)
(* initializeSession alone, from every page and every option.             *)
(* Every await of initializeSession settles: the storage request and the   *)
(* fetches end, with a result or with a failure.                           *)
(***************************************************************************)
NextInit ==
  \/ InitializeSession
  \/ \E opened, dbOk \in BOOLEAN : InitDbOpened(opened, dbOk)
  \/ \E netOk \in BOOLEAN : InitSnapshotServed(netOk)
  \/ \E dbOk \in BOOLEAN : InitSnapshotReceived(dbOk)
  \/ \E netOk \in BOOLEAN : InitContextServed(netOk)
  \/ \E dbOk \in BOOLEAN : InitContextReceived(dbOk)
  \/ InitLocalSaved
  \/ InitLocalLoaded
  \/ Render

SpecInit == CtlInit /\ [][NextInit]_vars /\ WF_vars(InitSteps)

(***************************************************************************)
(* The operations of the hook on a page that has finished initializing.    *)
(***************************************************************************)
HookPartials == {[font |-> V1], [theme |-> V2, font |-> V2]}

\* the page is mounted without an initial snapshot and its IndexedDB works
\* while it initializes
HookPageInit ==
  /\ CtlInit
  /\ store.sessionId \in {"tok-1", "tok-exp"} /\ store.idAccess = "ok"
  /\ options = [initialSnapshotId |-> 0, syncWithServerOnMount |-> TRUE,
                restoreOnMount |-> TRUE, autoSaveInterval |-> 0]

NextHook ==
  \/ InitializeSession
  \/ InitDbOpened(TRUE, TRUE)
  \/ InitContextServed(TRUE)
  \/ InitContextReceived(TRUE)
  \/ InitLocalSaved
  \/ InitLocalLoaded
  \/ Render
  \/ \E U \in HookPartials, sync \in BOOLEAN :
       /\ InitDone /\ Len(calls) < MaxHookCalls
       /\ UpdateContextCall(U, sync, TRUE)
  \/ \E i \in DOMAIN calls, netOk \in BOOLEAN : UpdateContextSaved(i, netOk, TRUE)
  \/ \E i \in DOMAIN calls : UpdateContextPushed(i, TRUE)
  \/ \E id \in {1} :
       InitDone /\ Len(calls) < MaxHookCalls /\ RestoreSnapshotCall(id)
  \/ \E i \in DOMAIN calls, netOk \in BOOLEAN : RestoreSnapshotServed(i, netOk)
  \/ \E i \in DOMAIN calls : RestoreSnapshotReceived(i, TRUE)
  \/ \E i \in DOMAIN calls, netOk \in BOOLEAN : RestoreSnapshotSaved(i, netOk)
  \/ \E i \in DOMAIN calls : RestoreSnapshotPushed(i)
  \/ \E i \in DOMAIN tasks : UpdateFindContext(i) /\ UNCHANGED ctlVars
  \/ \E i \in DOMAIN tasks : UpdateCreate(i) /\ UNCHANGED ctlVars
  \/ \E i \in DOMAIN tasks : UpdateWrite(i) /\ UNCHANGED ctlVars

SpecHook == HookPageInit /\ [][NextHook]_vars

(***************************************************************************)
(* updateContext called again and again with the same or another partial,  *)
(* every call pushed to the registry.                                      *)
(***************************************************************************)
NextTwice ==
  \/ InitializeSession
  \/ InitDbOpened(TRUE, TRUE)
  \/ InitContextServed(TRUE)
  \/ InitContextReceived(TRUE)
  \/ InitLocalSaved
  \/ InitLocalLoaded
  \/ Render
  \/ \E U \in HookPartials :
       /\ InitDone /\ Len(calls) < MaxHookCalls
       /\ UpdateContextCall(U, TRUE, TRUE)
  \/ \E i \in DOMAIN calls : UpdateContextSaved(i, TRUE, TRUE)
  \/ \E i \in DOMAIN calls : UpdateContextPushed(i, TRUE)
  \/ \E i \in DOMAIN tasks : UpdateFindContext(i) /\ UNCHANGED ctlVars
  \/ \E i \in DOMAIN tasks : UpdateCreate(i) /\ UNCHANGED ctlVars
  \/ \E i \in DOMAIN tasks : UpdateWrite(i) /\ UNCHANGED ctlVars

SpecTwice == HookPageInit /\ [][NextTwice]_vars

(***************************************************************************)
(* shareContext on a page that has finished initializing.                  *)
(***************************************************************************)
NextHookShare ==
  \/ InitializeSession
  \/ InitDbOpened(TRUE, TRUE)
  \/ \E netOk \in BOOLEAN : InitContextServed(netOk)
  \/ InitContextReceived(TRUE)
  \/ InitLocalSaved
  \/ InitLocalLoaded
  \/ Render
  \/ \E k \in ShareKeys, v \in ShareValues, netOk \in BOOLEAN :
       /\ InitDone /\ Len(calls) < MaxHookCalls /\ Len(shares) < MaxShares
       /\ ShareContextCall(k, v, netOk)
  \/ \E i \in DOMAIN calls : ShareContextReturned(i, TRUE)
  \/ \E i \in DOMAIN calls : UpdateContextSaved(i, TRUE, TRUE)
  \/ \E i \in DOMAIN tasks : UpdateFindSession(i) /\ UNCHANGED ctlVars
  \/ \E i \in DOMAIN tasks : UpdateFindContext(i) /\ UNCHANGED ctlVars
  \/ \E i \in DOMAIN tasks : UpdateCreate(i) /\ UNCHANGED ctlVars
  \/ \E i \in DOMAIN tasks : UpdateWrite(i) /\ UNCHANGED ctlVars

SpecHookShare == HookPageInit /\ [][NextHookShare]_vars

(***************************************************************************)
(* The life of a mounted hook: auto-save, storage events, updates that     *)
(* stay in the browser, unmount.                                           *)
(***************************************************************************)
LifePageInit ==
  /\ CtlInit
  /\ store.sessionId = "tok-1" /\ store.idAccess = "ok"
  /\ options.initialSnapshotId = 0
  /\ options.syncWithServerOnMount /\ options.restoreOnMount

LifePartials == {[font |-> V1]}

NextLife ==
  \/ InitializeSession
  \/ InitDbOpened(TRUE, TRUE)
  \/ InitContextServed(TRUE)
  \/ InitContextReceived(TRUE)
  \/ InitLocalSaved
  \/ Render
  \/ \E U \in LifePartials :
       /\ mounted /\ InitDone /\ Len(calls) < MaxHookCalls
       /\ UpdateContextCall(U, FALSE, TRUE)
  \/ \E i \in DOMAIN calls : UpdateContextSaved(i, TRUE, TRUE)
  \/ TimerTick
  \/ AutoSaveFire(TRUE)
  \/ \E data \in LifePartials : StorageEvent(data)
  \/ Dispose
  \/ \E i \in DOMAIN tasks : UpdateFindContext(i) /\ UNCHANGED ctlVars
  \/ \E i \in DOMAIN tasks : UpdateWrite(i) /\ UNCHANGED ctlVars

SpecLife == LifePageInit /\ [][NextLife]_vars

(***************************************************************************)
(* Unmounting a hook while its updates are in flight.                      *)
(***************************************************************************)
UnmountPageInit == LifePageInit /\ options.autoSaveInterval = 0

NextUnmount ==
  \/ InitializeSession
  \/ InitDbOpened(TRUE, TRUE)
  \/ InitContextServed(TRUE)
  \/ InitContextReceived(TRUE)
  \/ InitLocalSaved
  \/ Render
  \/ \E U \in Partials :
       /\ mounted /\ InitDone /\ Len(calls) < MaxHookCalls
       /\ UpdateContextCall(U, TRUE, TRUE)
  \/ \E i \in DOMAIN calls, netOk \in BOOLEAN : UpdateContextSaved(i, netOk, TRUE)
  \/ \E i \in DOMAIN calls : UpdateContextPushed(i, TRUE)
  \/ \E id \in RestoreIds :
       /\ mounted /\ InitDone /\ Len(calls) < MaxHookCalls
       /\ RestoreSnapshotCall(id)
  \/ \E i \in DOMAIN calls, netOk \in BOOLEAN : RestoreSnapshotServed(i, netOk)
  \/ \E i \in DOMAIN calls : RestoreSnapshotReceived(i, TRUE)
  \/ \E i \in DOMAIN calls, netOk \in BOOLEAN : RestoreSnapshotSaved(i, netOk)
  \/ \E i \in DOMAIN calls : RestoreSnapshotPushed(i)
  \/ Dispose
  \/ \E i \in DOMAIN tasks : UpdateFindContext(i) /\ UNCHANGED ctlVars
  \/ \E i \in DOMAIN tasks : UpdateWrite(i) /\ UNCHANGED ctlVars

SpecUnmount == UnmountPageInit /\ [][NextUnmount]_vars

(***************************************************************************)
(* A page that broadcasts its updates and another tab that listens.  A     *)
(* storage event that has a listener to go to is dispatched.               *)
(***************************************************************************)
TabsPageInit == LifePageInit /\ options.autoSaveInterval = 0

NextTabs ==
  \/ InitializeSession
  \/ InitDbOpened(TRUE, TRUE)
  \/ InitContextServed(TRUE)
  \/ InitContextReceived(TRUE)
  \/ InitLocalSaved
  \/ Render
  \/ \E U \in HookPartials :
       /\ InitDone /\ Len(calls) < MaxHookCalls
       /\ UpdateContextCall(U, FALSE, TRUE)
  \/ \E i \in DOMAIN calls, bcOk \in BOOLEAN : UpdateContextSaved(i, TRUE, bcOk)
  \/ PeerSubscribe
  \/ \E n \in DOMAIN posted, doc \in Documents : DeliverStorageEvent(n, doc)

Dispatch == \E n \in DOMAIN posted, doc \in Documents : DeliverStorageEvent(n, doc)

SpecTabs == TabsPageInit /\ [][NextTabs]_vars /\ WF_vars(Dispatch)

(***************************************************************************)
(* The local cache of a page whose hook is not mounted.                    *)
(***************************************************************************)
NextCache ==
  \/ \E key \in CacheKeys, data \in CachePayloads, dbOk \in BOOLEAN :
       SaveLocal(key, data, dbOk)
  \/ \E key \in CacheKeys, dbOk \in BOOLEAN : LoadLocal(key, dbOk)

SpecCache == Init /\ [][NextCache]_vars

(***************************************************************************)
(* The registry under the maintenance sweep: snapshots are listed and      *)
(* created while cleanupExpiredData runs and the clock advances.  At the   *)
(* start one session and one snapshot expire at time 0.                    *)
(***************************************************************************)
SweepSnapshots ==
  CtlSnapshots @@
  (3 :> [userId |-> "U1", sessionId |-> "tok-1",
         snapshotData |-> [font |-> V1], snapshotName |-> NoName,
         createdAt |-> 0 - SnapshotTTL, expiresAt |-> 0, isManual |-> FALSE,
         source |-> "auto"])

SweepNames == SnapNames \cup {""}

SweepInit ==
  /\ now = 0
  /\ sessions = [InitSessions EXCEPT !["tok-exp"].expiresAt = 0]
  /\ contexts = InitContexts
  /\ snapshots = SweepSnapshots
  /\ taken = <<[theme |-> V2], [font |-> V2], [font |-> V1]>>
  /\ tasks = <<>>
  /\ shares = <<>>
  /\ lastResult = NoResult
  /\ lastRestore = NoRestore
  /\ acked = [t \in Tokens |-> {}]
  /\ nUpdates = 0
  /\ CtlIdle

Created == Len(taken) - Cardinality(DOMAIN SweepSnapshots)

NextSweep ==
  \/ Tick /\ UNCHANGED ctlVars
  \/ \E u \in Users, limit \in ListLimits :
       /\ ListSnapshots(u, limit)
       /\ UNCHANGED <<regVars, options, hook, view, initializing, store, calls>>
       /\ UNCHANGED <<posted, timer, listener, mounted, tabVars, cacheVars, routeVars, eventVars>>
  \/ /\ Len(sweeps) < MaxSweeps
     /\ CleanupCall
     /\ UNCHANGED <<options, hook, view, initializing, store, calls>>
     /\ UNCHANGED <<posted, timer, listener, mounted, tabVars, cacheVars, routeVars, eventVars>>
  \/ \E i \in DOMAIN sweeps :
       /\ CleanupSnapshots(i)
       /\ UNCHANGED <<options, hook, view, initializing, store, calls>>
       /\ UNCHANGED <<posted, timer, listener, mounted, tabVars, cacheVars, routeVars, eventVars>>
  \/ \E u \in SnapSharers, tok \in SnapTokens, name \in SweepNames, p \in SnapPayloads :
       Created < MaxCreated /\ CreateSnapshot(u, tok, p, name) /\ UNCHANGED ctlVars

SpecSweep == SweepInit /\ [][NextSweep]_vars

(***************************************************************************)
(* The context routes called by both identities with any session token.    *)
(***************************************************************************)
NextRoute ==
  \/ \E cookie \in Cookies, tok \in RouteTokens, body \in RouteBodies :
       /\ nUpdates < MaxUpdates
       /\ ContextPost(cookie, tok, body)
       /\ UNCHANGED <<options, hook, view, initializing, store, calls>>
       /\ UNCHANGED <<posted, timer, listener, mounted, tabVars, cacheVars, sweepVars,
                      eventVars>>
  \/ \E cookie \in Cookies, tok \in RouteTokens :
       /\ ContextGet(cookie, tok)
       /\ UNCHANGED <<options, hook, view, initializing, store, calls>>
       /\ UNCHANGED <<posted, timer, listener, mounted, tabVars, cacheVars, sweepVars,
                      eventVars>>
  \/ \E i \in DOMAIN tasks : UpdateFindContext(i) /\ UNCHANGED ctlVars
  \/ \E i \in DOMAIN tasks : UpdateWrite(i) /\ UNCHANGED ctlVars

SpecRoute == Init /\ [][NextRoute]_vars

(***************************************************************************)
(* Fetch-or-create writes side by side: getOrCreateSessionContext and      *)
(* updateSessionContext on a token whose Session has no Context yet, and   *)
(* on a token that has no Session.                                         *)
(***************************************************************************)
NextGetOrCreate ==
  \/ \E tok \in GetOrCreateTokens, u \in Users, d \in Defaults :
       Len(tasks) < MaxUpdates /\ GetOrCreateCall(tok, u, d) /\ UNCHANGED ctlVars
  \/ \E i \in DOMAIN tasks : GetOrCreateCreate(i) /\ UNCHANGED ctlVars
  \/ \E tok \in GetOrCreateTokens, U \in Partials :
       Len(tasks) < MaxUpdates /\ UpdateCall(tok, U) /\ UNCHANGED ctlVars
  \/ \E i \in DOMAIN tasks : UpdateFindContext(i) /\ UNCHANGED ctlVars
  \/ \E i \in DOMAIN tasks : UpdateCreate(i) /\ UNCHANGED ctlVars
  \/ \E i \in DOMAIN tasks : UpdateWrite(i) /\ UNCHANGED ctlVars

SpecGetOrCreate == Init /\ [][NextGetOrCreate]_vars

(***************************************************************************)
(* The maintenance sweep next to updateSessionContext calls on the session *)
(* it purges.                                                              *)
(***************************************************************************)
PurgeTokens == {"tok-exp"}

NextPurge ==
  \/ Tick /\ UNCHANGED ctlVars
  \/ /\ Len(sweeps) < MaxSweeps
     /\ CleanupCall
     /\ UNCHANGED <<options, hook, view, initializing, store, calls>>
     /\ UNCHANGED <<posted, timer, listener, mounted, tabVars, cacheVars, routeVars, eventVars>>
  \/ \E i \in DOMAIN sweeps :
       /\ CleanupSnapshots(i)
       /\ UNCHANGED <<options, hook, view, initializing, store, calls>>
       /\ UNCHANGED <<posted, timer, listener, mounted, tabVars, cacheVars, routeVars, eventVars>>
  \/ \E tok \in PurgeTokens, U \in Partials :
       nUpdates < MaxCalls /\ UpdateCall(tok, U) /\ UNCHANGED ctlVars
  \/ \E i \in DOMAIN tasks : UpdateFindContext(i) /\ UNCHANGED ctlVars
  \/ \E i \in DOMAIN tasks : UpdateCreate(i) /\ UNCHANGED ctlVars
  \/ \E i \in DOMAIN tasks : UpdateWrite(i) /\ UNCHANGED ctlVars

SpecPurge == SweepInit /\ [][NextPurge]_vars

(***************************************************************************)
(* One fan-out of any key, with no other writer.                           *)
(***************************************************************************)
NextShareKey ==
  \/ Tick /\ UNCHANGED ctlVars
  \/ \E cookie \in Cookies, k \in AnyShareKeys, v \in AnyShareValues :
       /\ Len(shares) < MaxShares
       /\ SharePost(cookie, k, v)
       /\ UNCHANGED <<options, hook, view, initializing, store, calls>>
       /\ UNCHANGED <<posted, timer, listener, mounted, tabVars, cacheVars, sweepVars,
                      callers, eventVars>>
  \/ \E i \in DOMAIN tasks : UpdateFindSession(i) /\ UNCHANGED ctlVars
  \/ \E i \in DOMAIN tasks : UpdateFindContext(i) /\ UNCHANGED ctlVars
  \/ \E i \in DOMAIN tasks : UpdateCreate(i) /\ UNCHANGED ctlVars
  \/ \E i \in DOMAIN tasks : UpdateWrite(i) /\ UNCHANGED ctlVars

SpecShareKey == Init /\ [][NextShareKey]_vars

(***************************************************************************)
(* A page whose storage holds no session id: getOrCreateSessionId makes    *)
(* one up, and the hook and the session routes work with that id.  The     *)
(* hook's operations are called one after the other, the page shares at    *)
(* most once and one request comes from elsewhere.  No context is ever     *)
(* fetched for the id, so the save that follows a fetched context is not   *)
(* part of these runs.                                                     *)
(***************************************************************************)
FreshPageInit ==
  /\ CtlInit
  /\ store.sessionId = NoToken /\ store.idAccess = "ok"
  /\ options = [initialSnapshotId |-> 0, syncWithServerOnMount |-> TRUE,
                restoreOnMount |-> TRUE, autoSaveInterval |-> 0]

FreshPartials == {[font |-> V1]}

\* every call of the hook has returned
Quiet == \A j \in DOMAIN calls : calls[j].pc = "done"

\* every push the registry was given has ended
Settled == \A i \in DOMAIN tasks : tasks[i].pc = "done"

MayCall == InitDone /\ Quiet /\ Settled /\ Len(calls) < MaxHookCalls

NextFresh ==
  \/ InitializeSession
  \/ InitDbOpened(TRUE, TRUE)
  \/ InitContextServed(TRUE)
  \/ InitContextReceived(TRUE)
  \/ InitLocalLoaded
  \/ Render
  \/ \E U \in FreshPartials : MayCall /\ UpdateContextCall(U, TRUE, TRUE)
  \/ \E i \in DOMAIN calls : UpdateContextSaved(i, TRUE, TRUE)
  \/ \E i \in DOMAIN calls : UpdateContextPushed(i, TRUE)
  \/ MayCall /\ RestoreSnapshotCall(1)
  \/ \E i \in DOMAIN calls : RestoreSnapshotServed(i, TRUE)
  \/ \E i \in DOMAIN calls : RestoreSnapshotReceived(i, TRUE)
  \/ \E i \in DOMAIN calls : RestoreSnapshotSaved(i, TRUE)
  \/ \E i \in DOMAIN calls : RestoreSnapshotPushed(i)
  \/ MayCall /\ shares = <<>> /\ ShareContextCall("theme", V1, TRUE)
  \/ \E i \in DOMAIN calls : ShareContextReturned(i, TRUE)
  \/ \E netOk \in BOOLEAN : MayCall /\ CreateSnapshotCall("mine", netOk)
  \/ \E i \in DOMAIN calls : CreateSnapshotReturned(i, TRUE)
  \/ \E i \in DOMAIN calls : CreateSnapshotSaved(i, TRUE)
  \/ MayCall /\ LoadSnapshotsCall(TRUE)
  \/ \E i \in DOMAIN calls : SnapshotsListed(i)
  \/ MayCall /\ SyncWithServerCall(TRUE)
  \/ \E i \in DOMAIN calls : SyncWithServerReturned(i)
  \/ \E cookie \in Users, body \in RouteBodies :
       /\ MayCall /\ callers = <<>>
       /\ ContextPost(cookie, FreshId, body)
       /\ UNCHANGED <<options, hook, view, initializing, store, calls>>
       /\ UNCHANGED <<posted, timer, listener, mounted, tabVars, cacheVars, sweepVars,
                      eventVars>>
  \/ \E cookie \in {Identity} :
       /\ MayCall
       /\ ContextGet(cookie, FreshId)
       /\ UNCHANGED <<options, hook, view, initializing, store, calls>>
       /\ UNCHANGED <<posted, timer, listener, mounted, tabVars, cacheVars, sweepVars,
                      eventVars>>
  \/ \E i \in DOMAIN tasks : UpdateFindSession(i) /\ UNCHANGED ctlVars
  \/ \E i \in DOMAIN tasks : UpdateFindContext(i) /\ UNCHANGED ctlVars
  \/ \E i \in DOMAIN tasks : UpdateCreate(i) /\ UNCHANGED ctlVars
  \/ \E i \in DOMAIN tasks : UpdateWrite(i) /\ UNCHANGED ctlVars

SpecFresh == FreshPageInit /\ [][NextFresh]_vars

(***************************************************************************)
(* A page next to another tab of the same origin that runs the same hook   *)
(* and writes to the shared storage.                                       *)
(***************************************************************************)
EventsPageInit ==
  /\ CtlInit
  /\ store.sessionId \in {NoToken, "tok-1"} /\ store.idAccess = "ok"
  /\ options = [initialSnapshotId |-> 0, syncWithServerOnMount |-> TRUE,
                restoreOnMount |-> TRUE, autoSaveInterval |-> 0]

NextEvents ==
  \/ InitializeSession
  \/ InitDbOpened(TRUE, TRUE)
  \/ InitContextServed(TRUE)
  \/ InitContextReceived(TRUE)
  \/ InitLocalSaved
  \/ InitLocalLoaded
  \/ Render
  \/ \E U \in LifePartials :
       /\ InitDone /\ Len(calls) < MaxHookCalls
       /\ UpdateContextCall(U, FALSE, TRUE)
  \/ \E i \in DOMAIN calls : UpdateContextSaved(i, TRUE, TRUE)
  \/ PeerSubscribe
  \/ PeerGetOrCreateSessionId
  \/ \E U \in Partials, dbOk, bcOk \in BOOLEAN : PeerUpdateContext(U, dbOk, bcOk)
  \/ \E n \in DOMAIN fired : PageStorageEvent(n)

SpecEvents == EventsPageInit /\ [][NextEvents]_vars

(***************************************************************************)
(* Restores next to the maintenance sweep: the snapshots of the start are  *)
(* listed and restored while the clock advances and cleanupExpiredData     *)
(* runs.  Snapshot 3 expires at time 0.                                    *)
(***************************************************************************)
ExpiryIds == DOMAIN SweepSnapshots

NextExpiry ==
  \/ Tick /\ UNCHANGED ctlVars
  \/ \E u \in Users, limit \in ListLimits :
       /\ ListSnapshots(u, limit)
       /\ UNCHANGED <<regVars, options, hook, view, initializing, store, calls>>
       /\ UNCHANGED <<posted, timer, listener, mounted, tabVars, cacheVars, routeVars, eventVars>>
  \/ /\ Len(sweeps) < MaxSweeps
     /\ CleanupCall
     /\ UNCHANGED <<options, hook, view, initializing, store, calls>>
     /\ UNCHANGED <<posted, timer, listener, mounted, tabVars, cacheVars, routeVars, eventVars>>
  \/ \E i \in DOMAIN sweeps :
       /\ CleanupSnapshots(i)
       /\ UNCHANGED <<options, hook, view, initializing, store, calls>>
       /\ UNCHANGED <<posted, timer, listener, mounted, tabVars, cacheVars, routeVars, eventVars>>
  \/ \E id \in ExpiryIds, u \in Users : Restore(id, u) /\ UNCHANGED ctlVars

SpecExpiry == SweepInit /\ [][NextExpiry]_vars

(***************************************************************************)
(* Properties of the registry.                                             *)
(***************************************************************************)
\* call i finishes in this step
Finishes(i) == i \in DOMAIN tasks /\ tasks[i].pc # "done" /\ tasks'[i].pc = "done"

\* C1: an updateContext(token, U) that succeeds on a stored payload P (empty
\* when the token has no Context yet; P is what the call read and is still
\* stored when it writes) persists and returns the shallow merge of P and U:
\* every key of U carries U's whole value, every other key of P keeps P's
\* value, and there is no further key.
C1_UpdateIsShallowMerge ==
  [][\A i \in DOMAIN tasks :
       (/\ Finishes(i)
        /\ tasks'[i].result = "ok"
        /\ Stored(tasks[i].token) = tasks[i].ctxRead)
       => LET P == Stored(tasks[i].token)
              U == tasks[i].partial
              R == contexts'[tasks[i].token].contextData
          IN /\ lastResult'.returned = R
             /\ DOMAIN R = DOMAIN P \cup DOMAIN U
             /\ \A k \in DOMAIN U : R[k] = U[k]
             /\ \A k \in DOMAIN P \ DOMAIN U : R[k] = P[k]]_vars

\* an update of tok-1 has added the key font next to the stored key theme
C1_Witness ==
  /\ lastResult.result = "ok"
  /\ lastResult.token = "tok-1"
  /\ lastResult.returned = [theme |-> V1, font |-> V1]
  /\ contexts["tok-1"].contextData = [theme |-> V1, font |-> V1]

\* C2: the session lookup of an updateContext whose token has no Session
\* ends the call with NotFound and leaves the three tables as they were.
C2_NoSessionIsNotFound ==
  [][\A i \in DOMAIN tasks' :
       (/\ i \in DOMAIN tasks => tasks[i].pc = "findSession"
        /\ tasks'[i].pc # "findSession"
        /\ tasks'[i].token \notin DOMAIN sessions)
       => /\ tasks'[i].pc = "done"
          /\ tasks'[i].result = "NotFound"
          /\ lastResult'.result = "NotFound"
          /\ UNCHANGED <<sessions, contexts, snapshots>>]_vars

\* an update of the token without a session has failed
C2_Witness ==
  /\ lastResult.result = "NotFound"
  /\ lastResult.token = "tok-none"
  /\ "tok-none" \notin DOMAIN contexts

\* C5: a fan-out writes only into the Contexts of the sessions that
\* listActiveSessions(identity) returns (active and not expired).
C5_ShareWritesOnlyListed ==
  \A i \in DOMAIN tasks :
    (tasks[i].share # 0 /\ tasks[i].result = "ok")
      => tasks[i].token \in shares[tasks[i].share].listed

\* C6: when the update of one session of a fan-out fails, nothing written is
\* undone and the updates of the other sessions go on unchanged; an update of
\* a fan-out that succeeds is persisted, whatever happened to the others.
C6_FanOutIndependent ==
  [][\A i \in DOMAIN tasks :
       /\ (Finishes(i) /\ tasks[i].share # 0 /\ tasks'[i].result # "ok")
            => /\ contexts' = contexts
               /\ \A j \in DOMAIN tasks : j # i => tasks'[j] = tasks[j]
       /\ (Finishes(i) /\ tasks[i].share # 0 /\ tasks'[i].result = "ok")
            => \A k \in DOMAIN tasks[i].partial :
                 contexts'[tasks[i].token].contextData[k] = tasks[i].partial[k]]_vars

\* one update of a fan-out has failed and another one has succeeded
C6_Witness ==
  \E i, j \in DOMAIN tasks :
    /\ tasks[i].share # 0
    /\ tasks[j].share = tasks[i].share
    /\ tasks[i].result = "Conflict"
    /\ tasks[j].result = "ok"
    /\ \A k \in DOMAIN tasks : tasks[k].pc = "done"

\* C7: after updateContext calls on a token have reported success, the Context
\* holds every key they wrote, each with one of the values written for it.
C7_SuccessfulUpdatesKept ==
  \A tok \in DOMAIN contexts :
    \A p \in acked[tok] :
      /\ p[1] \in DOMAIN contexts[tok].contextData
      /\ <<p[1], contexts[tok].contextData[p[1]]>> \in acked[tok]

\* C3: a snapshot created with payload X keeps X whatever updates, fan-outs
\* and further snapshots follow, and a successful restoreSnapshot returns X.
C3_SnapshotKeepsPayload ==
  /\ \A id \in DOMAIN snapshots : snapshots[id].snapshotData = taken[id]
  /\ lastRestore.status = "ok" => lastRestore.snapshotData = taken[lastRestore.id]

\* a snapshot of tok-1's context {theme: V1} was restored after the live
\* context of tok-1 had changed
C3_Witness ==
  /\ lastRestore.status = "ok"
  /\ snapshots[lastRestore.id].sessionId = "tok-1"
  /\ lastRestore.snapshotData = [theme |-> V1]
  /\ Stored("tok-1") # [theme |-> V1]

\* C4: restoreSnapshot(id, identity) returns the payload exactly when the
\* snapshot exists and belongs to the identity; in every other case it fails
\* and the result carries no payload.
C4_RestoreOwnedOnly ==
  [][lastRestore' # lastRestore =>
       LET r == lastRestore'
           owned == r.id \in DOMAIN snapshots /\ snapshots[r.id].userId = r.userId
       IN /\ owned => /\ r.status = "ok"
                      /\ r.hasPayload
                      /\ r.snapshotData = snapshots[r.id].snapshotData
          /\ ~owned => /\ r.status = "NotFoundOrUnauthorized"
                       /\ ~r.hasPayload
                       /\ r.snapshotData = Empty
                       /\ r.snapshotName = NoName]_vars

\* a restore of an existing snapshot by another identity has failed
C4_Witness ==
  /\ lastRestore.status = "NotFoundOrUnauthorized"
  /\ lastRestore.id \in DOMAIN snapshots
  /\ snapshots[lastRestore.id].userId # lastRestore.userId
  /\ ~lastRestore.hasPayload
(***************************************************************************)
(* Properties of the controller.                                           *)
(***************************************************************************)
\* initialized without error, and rendered with the resolved session id
Ready ==
  /\ initializing.pc = "done" /\ ~hook.isLoading /\ hook.error = NoError
  /\ hook.sessionId # EmptyId /\ view.sessionId = hook.sessionId

UpdateInFlight(j) == calls[j].op = "update" /\ calls[j].pc # "done"

NoRestoreInFlight == \A j \in DOMAIN calls : calls[j].op = "restore" => calls[j].pc = "done"

\* the step is a call of updateContext
IsUpdateCall == /\ Len(calls') = Len(calls) + 1
                /\ calls'[Len(calls')].op = "update"

Holds(m, k, v) == k \in DOMAIN m /\ m[k] = v

Cached(st, sid, k, v) ==
  \/ sid \in DOMAIN st.idb /\ Holds(st.idb[sid], k, v)
  \/ StorageKey(sid) \in DOMAIN st.ls /\ Holds(JSONparse(st.ls[StorageKey(sid)]), k, v)

\* C8: when updateContext is called on a ready controller while an earlier
\* updateContext has not completed, the in-memory context and the local cache
\* afterwards hold every key of the second partial with its value and every
\* other key of the first partial with the first call's value.
C8_UpdatesApplyInCallOrder ==
  [][(Ready /\ NoRestoreInFlight /\ IsUpdateCall) =>
       \A j \in DOMAIN calls :
         UpdateInFlight(j) =>
           LET first == calls[j].updates
               second == calls'[Len(calls')].updates
               sid == calls'[Len(calls')].sessionId
           IN /\ \A k \in DOMAIN second :
                   Holds(hook'.contextData, k, second[k]) /\ Cached(store', sid, k, second[k])
              /\ \A k \in DOMAIN first \ DOMAIN second :
                   Holds(hook'.contextData, k, first[k]) /\ Cached(store', sid, k, first[k])]_vars

\* the response that the step adopts, and the keys set since it was requested
InitAdopts ==
  /\ initializing.pc \in {"restored", "fetched"}
  /\ initializing.resp.present
  /\ initializing'.pc = "savingLocal"

RestoreAdopts(i) ==
  /\ Ready
  /\ calls[i].op = "restore" /\ calls[i].pc = "restored"
  /\ calls[i].resp.present
  /\ calls'[i].pc = "savingLocal"

KeptOver(resp, since) ==
  \A k \in since :
    (k \in DOMAIN hook.contextData /\ k \notin DOMAIN resp.data) =>
      Holds(hook'.contextData, k, hook.contextData[k])

\* C9: when the controller adopts the response of the initial context load, of
\* the initial snapshot restore or of restoreSnapshot, every key that
\* updateContext set after the request was sent, and that the response does
\* not carry, is still in the in-memory context with its value.
C9_LateResponseKeepsNewerKeys ==
  [][/\ InitAdopts => KeptOver(initializing.resp, initializing.since)
     /\ \A i \in DOMAIN calls :
          RestoreAdopts(i) => KeptOver(calls[i].resp, calls[i].since)]_vars

DbOpenSettles == initializing.pc = "openingDb" /\ initializing'.pc # "openingDb"

\* C11: when the primary store has been opened or has failed to open,
\* initializeSession has resolved the session id and goes on with the load
\* step its options name first (snapshot restore, server fetch, cache, empty).
C11_StoreFailureKeepsInitGoing ==
  [][(DbOpenSettles /\ ~getOrCreateSessionIdThrows(store)) =>
       /\ hook'.sessionId = getOrCreateSessionId(store)
       /\ initializing'.pc = fromSnapshot(hook, hook.sessionId, TRUE).pc]_vars

\* C12: an initializeSession that was given an initialSnapshotId never asks
\* the server for the Context and never reads the local cache.
C12_ExplicitSnapshotStops ==
  options.initialSnapshotId # 0 =>
    initializing.pc \notin {"fetching", "fetched", "loadingLocal"}
\* the controller is ready and its callbacks close over the current context
Rendered == Ready /\ view.contextData = hook.contextData

SavedLocally(st, sid, data) ==
  \/ st = saveSessionContextLocal(store, sid, data, TRUE)
  \/ st = saveSessionContextLocal(store, sid, data, FALSE)

\* the messages added to posted carry exactly the pairs of U, one per key
PostsEachKey(U) ==
  /\ Len(posted') = Len(posted) + Cardinality(DOMAIN U)
  /\ SubSeq(posted', 1, Len(posted)) = posted
  /\ \A k \in DOMAIN U :
       \E n \in (Len(posted) + 1)..Len(posted') :
         posted'[n].contextKey = k /\ posted'[n].contextValue = U[k]

\* the registry is sent the payload U for session sid, and nothing else
PushesExactly(sid, U) ==
  /\ Len(tasks') = Len(tasks) + 1
  /\ tasks'[Len(tasks')].token = sid
  /\ tasks'[Len(tasks')].partial = U

UpdateAt(i, pc0) == i \in DOMAIN calls /\ calls[i].op = "update" /\ calls[i].pc = pc0

\* C13: updateContext(U, sync) called on a ready, rendered controller first
\* sets the in-memory context to the old context merged with U and writes
\* that value to the local cache under the session id, without contacting the
\* registry or broadcasting; its next step sends exactly U to the registry
\* when sync is true and nothing when it is false; the broadcast, one message
\* per key of U, is sent when the call completes, after the registry request.
C13_UpdateEffectsInOrder ==
  [][/\ (Rendered /\ IsUpdateCall) =>
          LET U == calls'[Len(calls')].updates
          IN /\ hook'.contextData = Merge(hook.contextData, U)
             /\ SavedLocally(store', hook.sessionId, Merge(hook.contextData, U))
             /\ calls'[Len(calls')].sessionId = hook.sessionId
             /\ tasks' = tasks /\ posted' = posted
     /\ \A i \in DOMAIN calls :
          (UpdateAt(i, "savingLocal") /\ calls'[i].pc = "pushing") =>
             /\ calls[i].syncToServer
             /\ PushesExactly(calls[i].sessionId, calls[i].updates)
             /\ posted' = posted /\ store' = store /\ hook' = hook
     /\ \A i \in DOMAIN calls :
          (UpdateAt(i, "savingLocal") /\ calls'[i].pc = "done") =>
             /\ tasks' = tasks
             /\ PostsEachKey(calls[i].updates)
             /\ store' = store /\ hook' = hook
     /\ \A i \in DOMAIN calls :
          (UpdateAt(i, "pushing") /\ calls'[i].pc = "done") =>
             /\ tasks' = tasks
             /\ PostsEachKey(calls[i].updates)
             /\ store' = store /\ hook' = hook
     /\ \A i \in DOMAIN calls :
          (UpdateAt(i, "savingLocal") /\ ~calls[i].syncToServer) => calls'[i].pc # "pushing"]_vars

\* an update of two keys has gone to the registry and has been broadcast
C13_Witness ==
  /\ Len(posted) = 2
  /\ \E i \in DOMAIN tasks : tasks[i].result = "ok"
  /\ \E i \in DOMAIN calls : calls[i].op = "update" /\ calls[i].pc = "done"
  /\ Len(calls) = 1
\* the registry request of call i ends in this step without success: the
\* fetch fails, or the response is not a success
PushFails(i) ==
  /\ i \in DOMAIN calls /\ calls'[i].pc = "done"
  /\ \/ /\ calls[i].pc = "savingLocal" /\ calls[i].sessionId # EmptyId
        /\ calls[i].op = "update" => calls[i].syncToServer
     \/ calls[i].pc = "pushing" /\ tasks[calls[i].task].result # "ok"

\* the restore request of call i has come back without a payload
RestoreFails(i) ==
  /\ i \in DOMAIN calls /\ calls[i].op = "restore"
  /\ calls[i].pc = "restored" /\ ~calls[i].resp.present
  /\ calls'[i].pc = "done"

\* C14: when the registry request of updateContext or restoreSnapshot fails,
\* the error field is set from then on and the in-memory context and the
\* local cache keep the change the call has made.
C14_ServerFailureSurfaced ==
  [][\A i \in DOMAIN calls :
       (PushFails(i) \/ RestoreFails(i)) =>
          /\ hook'.error # NoError
          /\ hook'.contextData = hook.contextData
          /\ store' = store]_vars

\* C20: when a restoreSnapshot that was called on a ready controller receives
\* the payload of the snapshot, the in-memory context becomes exactly that payload and the
\* payload is written to the local cache under the session id; the call then
\* sends exactly that payload to the registry for the session, unless the
\* request cannot be sent.
C20_RestoreAdoptsAndPushes ==
  [][\A i \in DOMAIN calls :
       /\ (RestoreAdopts(i) /\ calls[i].sessionId = hook.sessionId) =>
            LET data == snapshots[calls[i].snapshotId].snapshotData
            IN /\ hook'.contextData = data
               /\ SavedLocally(store', hook.sessionId, data)
               /\ calls'[i].updates = data /\ calls'[i].sessionId = hook.sessionId
               /\ tasks' = tasks
       /\ (Ready /\ calls[i].sessionId = hook.sessionId
                 /\ calls[i].op = "restore" /\ calls[i].pc = "savingLocal"
                 /\ calls'[i].pc # "savingLocal") =>
            \/ calls'[i].pc = "pushing" /\ PushesExactly(calls[i].sessionId, calls[i].updates)
            \/ calls'[i].pc = "done" /\ tasks' = tasks]_vars

\* a restore has replaced a context that held a key the snapshot lacks, and
\* its payload is on the way to the registry
C20_Witness ==
  \E i \in DOMAIN calls :
    /\ calls[i].op = "restore" /\ calls[i].pc = "pushing"
    /\ hook.contextData = snapshots[1].snapshotData
    /\ store.idb[hook.sessionId] = snapshots[1].snapshotData
    /\ "font" \in DOMAIN view.contextData
    /\ "font" \notin DOMAIN hook.contextData
\* the registry has refused to restore snapshot id for the page's identity,
\* which does not own it
Refused(id) ==
  /\ id \in DOMAIN snapshots /\ snapshots[id].userId # Identity
  /\ lastRestore.id = id /\ lastRestore.userId = Identity /\ lastRestore.status # "ok"

\* C15: when the registry has refused a restore because the identity does not
\* own the snapshot, the step of initializeSession or of restoreSnapshot that
\* receives the refusal sets the error field.
C15_ForeignRestoreSurfaced ==
  [][/\ (/\ initializing.pc = "restored" /\ initializing'.pc # "restored"
         /\ Refused(options.initialSnapshotId)) => hook'.error # NoError
     /\ \A i \in DOMAIN calls :
          (RestoreFails(i) /\ Refused(calls[i].snapshotId)) => hook'.error # NoError]_vars
\* the step is a call of shareContext
IsShareCall == /\ Len(calls') = Len(calls) + 1
               /\ calls'[Len(calls')].op = "share"

ShareReturns(i) == i \in DOMAIN calls /\ calls[i].op = "share" /\ calls'[i].op # "share"

\* C19: shareContext(key, value) sends the registry at most the one fan-out
\* request and changes nothing locally before the answer; when the fan-out
\* has succeeded the in-memory context and the local cache hold value under
\* key and no registry request is added then or by the update that follows;
\* when it has failed, the context and the cache are unchanged and the call
\* returns false.
C19_ShareAppliesLocallyWithoutPush ==
  [][/\ IsShareCall =>
          /\ Len(shares') <= Len(shares) + 1
          /\ nUpdates' = nUpdates
          /\ hook' = hook /\ store' = store
     /\ \A i \in DOMAIN calls :
          /\ (ShareReturns(i) /\ calls'[i].pc # "done") =>
                \A k \in DOMAIN calls[i].updates :
                  /\ Holds(hook'.contextData, k, calls[i].updates[k])
                  /\ Cached(store', calls[i].sessionId, k, calls[i].updates[k])
                  /\ tasks' = tasks /\ shares' = shares
          /\ (ShareReturns(i) /\ calls'[i].pc = "done") =>
                /\ hook' = hook /\ store' = store
                /\ tasks' = tasks /\ shares' = shares
                /\ calls'[i].returned = "false"
          /\ (calls[i].via = "share" /\ calls'[i] # calls[i]) =>
                /\ calls'[i].pc = "done"
                /\ tasks' = tasks /\ shares' = shares]_vars

\* a shareContext whose fan-out succeeded has completed: one fan-out, no
\* direct update request, the pair in the context and one broadcast
C19_Witness ==
  /\ Len(shares) = 1 /\ nUpdates = 0
  /\ Len(calls) = 1 /\ calls[1].op = "update" /\ calls[1].pc = "done"
  /\ Len(posted) = 1
  /\ \A k \in ShareKeys : k \in DOMAIN hook.contextData /\ hook.contextData[k] \in ShareValues
\* C16: while the hook is mounted and its auto-save interval is running, no
\* more than one period passes without an auto-save push, whatever updates
\* are made in between; with autoSaveInterval 0 the interval never fires.
C16_AutoSaveEveryPeriod ==
  /\ (mounted /\ timer.armed) => timer.overdue <= AutoSavePeriod
  /\ options.autoSaveInterval = 0 => timer.fired = 0

\* C17: once the component is unmounted, the auto-save interval does not
\* fire and the storage listener is not invoked.
C17_DisposedIsSilent ==
  [][~mounted => (timer'.fired = timer.fired /\ listener'.heard = listener.heard)]_vars

\* the component was unmounted after its interval had fired and its listener
\* had been invoked
C17_Witness == ~mounted /\ timer.fired > 0 /\ listener.heard > 0

\* C18: once the component is unmounted, a call that was in flight writes
\* nothing more: no write to the local cache, no request to the registry,
\* no broadcast.
C18_DisposedCallsDiscarded ==
  [][~mounted => (/\ store' = store
                  /\ Len(tasks') = Len(tasks)
                  /\ posted' = posted)]_vars

\* the most messages the page can have posted
MaxPosted == 2 * MaxHookCalls

\* C21: a message the page broadcasts while the other tab is subscribed
\* reaches the other tab's callback, through the channel or through the
\* fallback, and when it does the other tab's context holds the message's
\* value under the message's key.
C21_BroadcastReachesPeer ==
  /\ [][\A n \in DOMAIN posted :
         (<<n, "B">> \notin delivered /\ <<n, "B">> \in delivered') =>
            Holds(peer'.contextData, posted[n].contextKey, posted[n].contextValue)]_vars
  /\ \A n \in 1..MaxPosted :
       (n \in DOMAIN posted /\ peer.subscribed /\ peer.since < n)
          ~> (<<n, "B">> \in delivered)

LastSaved(key) == IF key \in DOMAIN saves.last THEN Some(saves.last[key]) ELSE Null

C24_LoadReturnsLastSave ==
  loaded.current => loaded.result = LastSaved(loaded.key)

\* C25: when IndexedDB has opened and localStorage throws on the read or on
\* the write of the session id, initializeSession has a non-empty session id
\* all the same and goes on with its first load step instead of ending in
\* its catch block.
C25_IdStorageFailureDegrades ==
  [][(DbOpenSettles /\ initializing'.opened /\ store.idAccess # "ok") =>
       /\ hook'.sessionId # EmptyId
       /\ ~initializing'.threw
       /\ hook'.error = NoError]_vars

\* C26: the rows getUserSessionSnapshots(identity, limit) returns all belong
\* to the identity, none of them had passed its expiry when the list was
\* made, and they are at most limit.
C26_ListOmitsExpiredAndForeign ==
  /\ Len(lastList.rows) <= lastList.limit
  /\ \A n \in DOMAIN lastList.rows :
       /\ lastList.rows[n].userId = lastList.userId
       /\ ~(lastList.rows[n].expiresAt < lastList.at)

\* U1's snapshots were listed after one of them had expired and before the
\* clean-up removed it; the list holds the other one
C26_Witness ==
  /\ lastList.userId = "U1" /\ lastList.at = now
  /\ 3 \in DOMAIN snapshots /\ snapshots[3].expiresAt < now
  /\ 2 \in DOMAIN snapshots
  /\ Len(lastList.rows) = 1 /\ lastList.rows[1].id = 1

\* the clean-up call i runs its next database call in this step
SweepStarts == Len(sweeps') = Len(sweeps) + 1

SweepEnds(i) == i \in DOMAIN sweeps /\ sweeps[i].pc = "snapshots" /\ sweeps'[i].pc = "done"

\* table after is table before without the rows whose expiry lay before t
Purged(before, after, t) ==
  /\ DOMAIN after = {k \in DOMAIN before : ~(before[k].expiresAt < t)}
  /\ \A k \in DOMAIN after : after[k] = before[k]

C29_ManualIffNamed ==
  \A id \in DOMAIN snapshots :
    /\ snapshots[id].source = "manual" <=> snapshots[id].snapshotName # NoName
    /\ snapshots[id].source = "auto" <=> snapshots[id].snapshotName = NoName
    /\ snapshots[id].isManual <=> snapshots[id].source = "manual"

\* C30: a restoreFromSnapshot call, whether it returns the payload or fails,
\* leaves the Sessions, the Contexts and the Snapshots as they were.
C30_RestoreOnlyReads ==
  [][lastRestore' # lastRestore => UNCHANGED <<sessions, contexts, snapshots>>]_vars

\* a snapshot was restored whose payload differs from the live Context of
\* its session, and a restore by another identity has failed before or after
C30_Witness ==
  /\ lastRestore.status = "ok"
  /\ lastRestore.id \in DOMAIN snapshots
  /\ snapshots[lastRestore.id].snapshotData = lastRestore.snapshotData
  /\ Stored(snapshots[lastRestore.id].sessionId) # lastRestore.snapshotData

\* payload P holds every pair of U: U has been applied to it
Applied(P, U) == \A k \in DOMAIN U : Holds(P, k, U[k])

\* C27: applying a partial to a context it has already been applied to
\* changes nothing: an updateSessionContext that writes over the payload it
\* read leaves the stored payload as it is, and an updateContext of the
\* rendered controller leaves the in-memory context as it is and caches
\* that same context.
C27_SamePartialTwiceIsOnce ==
  [][/\ \A i \in DOMAIN tasks :
          (/\ Finishes(i) /\ tasks'[i].result = "ok"
           /\ Stored(tasks[i].token) = tasks[i].ctxRead
           /\ tasks[i].token \in DOMAIN contexts
           /\ Applied(Stored(tasks[i].token), tasks[i].partial))
          => /\ contexts' = contexts
             /\ lastResult'.returned = Stored(tasks[i].token)
     /\ (/\ Rendered /\ IsUpdateCall
         /\ Applied(hook.contextData, calls'[Len(calls')].updates))
          => /\ hook'.contextData = hook.contextData
             /\ SavedLocally(store', hook.sessionId, hook.contextData)]_vars

\* the partial {font: V1} was sent twice by the controller and written
\* twice by the registry, and the context holds it next to the older key
C27_Witness ==
  /\ Len(calls) = 2 /\ \A i \in DOMAIN calls : calls[i].pc = "done"
  /\ Len(tasks) = 2 /\ \A i \in DOMAIN tasks : tasks[i].result = "ok" /\ tasks[i].token = "tok-1"
  /\ acked["tok-1"] = {<<"font", V1>>}
  /\ Stored("tok-1") = [theme |-> V1, font |-> V1]
  /\ hook.contextData = [theme |-> V1, font |-> V1]

\* the session a token names belongs to the user
Owns(user, tok) == tok \in DOMAIN sessions /\ sessions[tok].userId = user

\* C31: the context routes read or change a Context only when the token of
\* the X-Session-ID header names a Session of the identity that was verified
\* from the session cookie.
C31_TokenCheckedAgainstIdentity ==
  /\ \A i \in DOMAIN callers :
       tasks[i].result = "ok" => Owns(callers[i], tasks[i].token)
  /\ (lastReply.route = "GET" /\ lastReply.status = 200)
       => Owns(lastReply.user, lastReply.token)

PurgedTokens == DOMAIN InitSessions \ DOMAIN sessions

Creates(i) == tasks[i].pc \in {"create", "createDefault"}

\* C34: fetch-or-create writes that run side by side on a token with a
\* Session and no Context all succeed: the create of each call that found no
\* Context ends well, and the one Context of the token then holds that
\* call's data next to what another call has stored.
C34_ConcurrentCreatesBothSucceed ==
  [][\A i \in DOMAIN tasks :
       (Finishes(i) /\ Creates(i) /\ tasks[i].token \in DOMAIN sessions) =>
          /\ tasks'[i].result = "ok"
          /\ tasks[i].token \in DOMAIN contexts'
          /\ Applied(contexts'[tasks[i].token].contextData, tasks[i].partial)
          /\ \A k \in DOMAIN Stored(tasks[i].token) :
               k \in DOMAIN contexts'[tasks[i].token].contextData]_vars

\* C35: once a fan-out of (key, value) has succeeded, the Context of every
\* session it went to holds value under key, for every key, "sharedAt"
\* included.
C35_ShareKeepsCallersValue ==
  \A n \in DOMAIN shares :
    shareResolved(n) =>
      \A t \in shares[n].targets : Holds(Stored(t), shares[n].key, shares[n].value)

\* the push of restore call i returns with success in this step, nothing
\* else is under way and the in-memory context is still the restored payload
RestorePushSucceeds(i) ==
  /\ calls[i].op = "restore" /\ calls[i].pc = "pushing" /\ calls'[i].pc = "done"
  /\ tasks[calls[i].task].result = "ok"
  /\ \A j \in DOMAIN calls : j # i => calls[j].pc = "done"
  /\ \A j \in DOMAIN tasks : tasks[j].pc = "done"
  /\ hook.contextData = calls[i].updates

\* C36: when the push of a restoreSnapshot has succeeded and nothing else
\* has written, the Context of the session on the server equals the
\* in-memory context: no key of the old server Context outlives the restore.
C36_RestoreReplacesServerContext ==
  [][\A i \in DOMAIN calls :
       RestorePushSucceeds(i) => Stored(calls[i].sessionId) = hook'.contextData]_vars

(***************************************************************************)
(* C37: no operation of the controller or of the session routes creates a  *)
(* Session: every step leaves the set of Sessions as it was; so a push for *)
(* an id the client made up ends with NotFound, and no Context is ever     *)
(* created for that id.                                                    *)
(***************************************************************************)
PushesOf(tok) == {i \in DOMAIN tasks : tasks[i].token = tok /\ tasks[i].pc = "done"}

C37_NoOperationCreatesSession ==
  /\ [][sessions' = sessions]_vars
  /\ [](FreshId \notin DOMAIN contexts)
  /\ [](\A i \in PushesOf(FreshId) : tasks[i].result = "NotFound")

\* the page works under a made-up id, its manual sync has come back false
\* and the push behind it was answered NotFound
C37_Witness ==
  /\ hook.sessionId = FreshId
  /\ \E j \in DOMAIN calls : calls[j].op = "sync" /\ calls[j].returned = "false"
  /\ \E i \in PushesOf(FreshId) : tasks[i].result = "NotFound"
  /\ FreshId \notin DOMAIN sessions

(***************************************************************************)
(* C38: the callback of the subscription is invoked for broadcast messages *)
(* only: an item another tab's fallback save sets under its session id     *)
(* never reaches the callback, so that tab's whole context is never merged *)
(* into the context of this hook.                                          *)
(***************************************************************************)
IsBroadcast(e) == Len(e.key) = 3 /\ e.key[2] = "broadcast"

C38_CallbackOnlyForBroadcasts ==
  \A n \in invoked : IsBroadcast(fired[n])

(***************************************************************************)
(* C39: whenever the hook is ready and none of its calls is in flight, the *)
(* entry of the local cache under its session id equals its in-memory      *)
(* context (no entry counts as the empty context); also after a storage    *)
(* event of another tab's broadcast has been handled.                      *)
(***************************************************************************)
CacheEntry(sid) ==
  IF sid \in DOMAIN store.idb THEN store.idb[sid]
  ELSE IF StorageKey(sid) \in DOMAIN store.ls THEN JSONparse(store.ls[StorageKey(sid)])
  ELSE Empty

C39_CacheEqualsContextWhenIdle ==
  (Ready /\ Quiet) => CacheEntry(hook.sessionId) = hook.contextData

(***************************************************************************)
(* C40: restoreFromSnapshot does not look at expiry: a restore of a        *)
(* snapshot the caller owns and the table still holds is answered with the *)
(* snapshot's payload, also when the snapshot is past its expiry, while a  *)
(* listing omits every row that is past its expiry; once the clean-up has  *)
(* removed the row the restore fails.                                      *)
(***************************************************************************)
C40_RestoreIgnoresExpiry ==
  /\ [][lastRestore' # lastRestore =>
          LET r == lastRestore'
          IN IF r.id \in DOMAIN snapshots /\ snapshots[r.id].userId = r.userId
               THEN r.status = "ok" /\ r.snapshotData = snapshots[r.id].snapshotData
               ELSE r.status = "NotFoundOrUnauthorized" /\ ~r.hasPayload]_vars
  /\ [](\A n \in DOMAIN lastList.rows : lastList.rows[n].expiresAt > lastList.at)

\* snapshot 3 is past its expiry and not yet swept: the owner's listing of
\* this moment omits it, the owner's restore has returned its payload
C40_Witness ==
  /\ 3 \in DOMAIN snapshots /\ snapshots[3].expiresAt < now
  /\ lastList.userId = "U1" /\ lastList.at = now
  /\ \A n \in DOMAIN lastList.rows : lastList.rows[n].id # 3
  /\ lastRestore.id = 3 /\ lastRestore.userId = "U1" /\ lastRestore.status = "ok"
  /\ lastRestore.snapshotData = snapshots[3].snapshotData
====
